---- MODULE Spec2Model ----
(***************************************************************************)
(* Model of the evaluation core of the forecast application:               *)
(*   splitters/holdoutpct.py   HoldoutPctSplitter                          *)
(*   models/{arima,prophet,nbeats}.py   fit / predict                      *)
(*   utils/model_evaluation.py  calculate_metrics                          *)
(*   models/base.py             ForecastModel.evaluate                     *)
(*   services/model_service.py  ModelService.train_and_evaluate            *)
(* and of the Streamlit application around it:                             *)
(*   state/app_state.py         AppState (one st.session_state per session)*)
(*   ui/sidebar.py, ui/model_tab.py, ui/comparison_tab.py                  *)
(*                                                                         *)
(* A time series is a sequence of strictly increasing integer timestamps   *)
(* (days).  Forecast values are not computed numerically: a prediction     *)
(* carries the data its fitted library object was trained on.              *)
(***************************************************************************)
EXTENDS Integers, Sequences, FiniteSets, TLC

\* ---------------------------------------------------------------- bounds
MaxLen == 6
MaxStep == 2
MaxHorizon == 2
MaxMetric == 1
MaxFuncs == 2
MaxVersion == 2
MaxEntries == 2

VARIABLES
    \* HoldoutPctSplitter object and its last split() call
    sp_status,      \* "new" | "ready" | "ctor_error" | "split_done"
    sp_arg,         \* the train_pct argument of the last __init__ call
    sp_train_pct,   \* self.train_pct
    sp_data,        \* the data argument of the last split() call
    sp_train,       \* returned train
    sp_test,        \* returned test
    \* one forecasting model instance
    m_variant,      \* "none" | "arima" | "prophet" | "nbeats"
    m_model,        \* self.model: [state: "none" | "unfit" | "fit", data, freq]
    m_last_date,    \* self._last_date
    m_freq,         \* self._freq
    m_call,         \* the last fit/predict call and its arguments
    m_out,          \* what the last fit/predict call returned or raised
    m_fit_completed, \* history: some fit call on this instance has returned
    \* calculate_metrics
    cm_funcs,       \* metric_functions: sequence of [name, outcome]
    cm_status,      \* "idle" | "returned" | "raised"
    cm_results,     \* the returned dict, as a set of [name, value] pairs
    \* ModelService.train_and_evaluate / ForecastModel.evaluate
    ev_pc,          \* position inside the call
    ev_req,         \* the request: model_class, data, train_pct, horizon
    ev_log,         \* the model operations performed so far, in order
    ev_test_pred,   \* test_predictions
    ev_metrics,     \* metrics
    ev_result,      \* the returned tuple
    ev_error,       \* the exception that reached the caller
    \* st.session_state of each browser session (state/app_state.py)
    ss_present,             \* initialize() has populated the session
    ss_historical_data,     \* 'historical_data'
    ss_upload_key,          \* 'upload_key'
    ss_model_trained,       \* 'model_trained'[model]
    ss_results,             \* '{model}_results'
    ss_predictions,         \* '{model}_predictions'
    ss_test_predictions,    \* '{model}_test_predictions'
    ss_trained_train_pct,   \* '{model}_trained_train_pct'
    ss_trained_horizon,     \* '{model}_trained_horizon'
    ss_train_pct,           \* '{model}_train_pct'  (slider)
    ss_horizon,             \* '{model}_horizon'    (number input)
    ss_hyperparams,         \* '{model}_{param}'    (hyperparameter widgets)
    ss_run,                 \* where the session's script run stands
    ss_shown,               \* what the last script run of the session showed
    \* the process-wide st.cache_resource of train_and_evaluate
    cache,                  \* the entries: [key, value], and the session
                            \* whose request computed the value (by)
    cache_locks,            \* keys whose value is being computed
    producer_runs,          \* history: completed producer runs, by key
    \* ui/comparison_tab.py
    cmp,                    \* what the last rendering of the comparison tab made
    \* ui/sidebar.py: preprocessing keys of st.session_state, sidebar widgets
    ss_preprocessing_pending,   \* 'preprocessing_pending'
    ss_pending_df,              \* 'pending_df'
    ss_pending_gap_count,       \* 'pending_gap_count'
    sb_uploader,            \* file_uploader: the key it was given, its file
    sb_date_column,         \* selectbox "Date Column"
    sb_value_column,        \* selectbox "Value Column"
    sb_fill_method,         \* radio "Fill gaps with:"
    \* models/arima.py: the static recommend_* methods
    rec                     \* the last direct call: its inputs and its result

splitVars == <<sp_status, sp_arg, sp_train_pct, sp_data, sp_train, sp_test>>
modelVars ==
    <<m_variant, m_model, m_last_date, m_freq, m_call, m_out, m_fit_completed>>
metricVars == <<cm_funcs, cm_status, cm_results>>
evalVars == <<ev_pc, ev_req, ev_log, ev_test_pred, ev_metrics, ev_result, ev_error>>
sessionVars ==
    <<ss_present, ss_historical_data, ss_upload_key, ss_model_trained,
      ss_results, ss_predictions, ss_test_predictions, ss_trained_train_pct,
      ss_trained_horizon, ss_train_pct, ss_horizon, ss_hyperparams, ss_run,
      ss_shown>>
cacheVars == <<cache, cache_locks, producer_runs>>
compareVars == <<cmp>>
preprocessingVars ==
    <<ss_preprocessing_pending, ss_pending_df, ss_pending_gap_count>>
widgetVars == <<sb_uploader, sb_date_column, sb_value_column, sb_fill_method>>
sidebarVars == <<preprocessingVars, widgetVars>>
appVars == <<sessionVars, cacheVars, compareVars, sidebarVars>>
recommendVars == <<rec>>
coreVars == <<splitVars, modelVars, metricVars, evalVars, recommendVars>>
vars == <<splitVars, modelVars, metricVars, evalVars, appVars, recommendVars>>

\* ---------------------------------------------------------------- helpers
Max(a, b) == IF a >= b THEN a ELSE b
Min(a, b) == IF a <= b THEN a ELSE b

\* ------------------------------------------------------------------- data
\* evenly spaced series of n points, s days apart
Regular(n, s) == [i \in 1..n |-> i * s]
\* 2-day spacing with a longer last gap: no frequency can be inferred
Irregular(n) == [i \in 1..n |-> IF i = n THEN 2 * i + 1 ELSE 2 * i]
DataSets ==
    {Regular(n, s) : n \in 0..MaxLen, s \in 1..MaxStep}
        \cup {Irregular(n) : n \in 3..MaxLen}

\* data.iloc[:k] and data.iloc[k:] for k >= 0 (slices clamp to the length)
IlocTo(data, k) == SubSeq(data, 1, Min(k, Len(data)))
IlocFrom(data, k) == SubSeq(data, Min(k, Len(data)) + 1, Len(data))

\* ------------------------------------------------- splitters/holdoutpct.py
NoPct == 0
NoSeq == <<>>

\* the guard of __init__
ValidPct(train_pct) == 0 < train_pct /\ train_pct < 100

\* a split index that rounds the share half to even instead of truncating it
RoundHalfEven(a, b) ==
    LET q == a \div b
        r == a % b
    IN  IF 2 * r < b THEN q
        ELSE IF 2 * r > b THEN q + 1
        ELSE IF q % 2 = 0 THEN q ELSE q + 1
split_idx_rounded(n, train_pct) ==
    Max(1, Min(n - 1, RoundHalfEven(n * train_pct, 100)))
\* a split index without the lower and upper safeguards
split_idx_unclamped(n, train_pct) == (n * train_pct) \div 100

\* split_idx = max(1, min(n - 1, int(n * self.train_pct / 100)))
split_idx(n, train_pct) == Max(1, Min(n - 1, (n * train_pct) \div 100))

split_train(data, train_pct) == IlocTo(data, split_idx(Len(data), train_pct))
split_test(data, train_pct) == IlocFrom(data, split_idx(Len(data), train_pct))

HoldoutPctSplitter_init(train_pct) ==
    /\ sp_arg' = train_pct
    /\ IF ValidPct(train_pct)
       THEN sp_status' = "ready" /\ sp_train_pct' = train_pct
       ELSE sp_status' = "ctor_error" /\ sp_train_pct' = NoPct
    /\ sp_data' = NoSeq /\ sp_train' = NoSeq /\ sp_test' = NoSeq

HoldoutPctSplitter_split(data) ==
    /\ sp_status \in {"ready", "split_done"}
    /\ sp_status' = "split_done"
    /\ sp_data' = data
    /\ sp_train' = split_train(data, sp_train_pct)
    /\ sp_test' = split_test(data, sp_train_pct)
    /\ UNCHANGED <<sp_arg, sp_train_pct>>

SplitInit ==
    /\ sp_status = "new" /\ sp_arg = NoPct /\ sp_train_pct = NoPct
    /\ sp_data = NoSeq /\ sp_train = NoSeq /\ sp_test = NoSeq

\* ------------------------------------------- models/{arima,prophet,nbeats}.py
Variants == {"arima", "prophet", "nbeats"}
NoDate == 0
NoFreq == 0
\* the 'D' of  pd.infer_freq(data.index) or 'D'
DayFreq == 1
NoModel == [state |-> "none", data |-> NoSeq, freq |-> NoFreq]
NoCall == [op |-> "none", data |-> NoSeq, horizon |-> 0]
NoOut == [kind |-> "none", err |-> "", index |-> NoSeq, from |-> NoSeq]
Raised(e) == [kind |-> "raise", err |-> e, index |-> NoSeq, from |-> NoSeq]

IsRegular(data) ==
    \A i \in 2..(Len(data) - 1) : data[i + 1] - data[i] = data[2] - data[1]
\* pd.infer_freq on 3 or more timestamps: the common spacing, or None (NoFreq)
infer_freq(data) == IF IsRegular(data) THEN data[2] - data[1] ELSE NoFreq
\* pd.infer_freq raises ValueError on fewer than 3 timestamps
InferFreqRaises(data) == Len(data) < 3
freq_or_D(data) == IF infer_freq(data) = NoFreq THEN DayFreq ELSE infer_freq(data)

\* where the library part of fit can raise: before self.model is assigned
\* (statsmodels' ARIMA(...).fit(), Prophet(...), the scaler, TimeSeries,
\* NBEATSModel(...)) or after it (self.model.fit of Prophet and N-BEATS)
FailPoints(variant) ==
    IF variant = "arima" THEN {"none", "before_assign"}
    ELSE {"none", "before_assign", "after_assign"}

\* fit(data): the instance after the call and what the call did.
\* m is [model, last_date, freq]; the result adds out.
fit(variant, m, data, fail) ==
    IF Len(data) = 0
    THEN \* data.index[-1] raises IndexError before anything is stored
         [model |-> m.model, last_date |-> m.last_date, freq |-> m.freq,
          out |-> Raised("IndexError")]
    ELSE IF InferFreqRaises(data)
    THEN \* self._last_date is already stored when infer_freq raises
         [model |-> m.model, last_date |-> data[Len(data)], freq |-> m.freq,
          out |-> Raised("InferFreqError")]
    ELSE IF fail = "before_assign"
    THEN [model |-> m.model, last_date |-> data[Len(data)],
          freq |-> freq_or_D(data), out |-> Raised("LibraryError")]
    ELSE IF fail = "after_assign"
    THEN [model |-> [state |-> "unfit", data |-> NoSeq, freq |-> NoFreq],
          last_date |-> data[Len(data)],
          freq |-> freq_or_D(data), out |-> Raised("LibraryError")]
    ELSE [model |-> [state |-> "fit", data |-> data, freq |-> freq_or_D(data)],
          last_date |-> data[Len(data)], freq |-> freq_or_D(data),
          out |-> [kind |-> "ok", err |-> "", index |-> NoSeq, from |-> NoSeq]]

\* the timestamp the future dates start after, and their spacing
\*   arima:   self._last_date + offset, freq=self._freq
\*   prophet: self.model.make_future_dataframe(periods, freq=self._freq),
\*            which continues the fitted history
\*   nbeats:  forecast_ts.time_index, which continues the training series
predict_base(variant, m) ==
    IF variant = "arima" THEN m.last_date
    ELSE m.model.data[Len(m.model.data)]
predict_freq(variant, m) ==
    IF variant = "nbeats" THEN m.model.freq ELSE m.freq

future_index(variant, m, horizon) ==
    [k \in 1..horizon |-> predict_base(variant, m) + k * predict_freq(variant, m)]

\* the first guard that fires in predict, "" when none does
predict_guard_fitted_first(m, horizon) ==
    IF m.model.state = "none" THEN "NotFitted"
    ELSE IF horizon < 1 THEN "InvalidHorizon"
    ELSE ""
\* a guard that lets a horizon of 0 through
predict_guard_zero_ok(m, horizon) ==
    IF horizon < 0 THEN "InvalidHorizon"
    ELSE IF m.model.state = "none" THEN "NotFitted"
    ELSE ""

predict_guard(m, horizon) ==
    IF horizon < 1 THEN "InvalidHorizon"
    ELSE IF m.model.state = "none" THEN "NotFitted"
    ELSE ""

\* predict(horizon): what the call returns or raises; it stores nothing
predict(variant, m, horizon, libfail) ==
    IF predict_guard(m, horizon) # ""
    THEN Raised(predict_guard(m, horizon))
    ELSE IF m.model.state = "unfit" \/ libfail
    THEN \* the library object was never trained, or its forecast raises
         Raised("LibraryError")
    ELSE [kind |-> "ok", err |-> "",
          index |-> future_index(variant, m, horizon),
          from |-> m.model.data]

ThisModel == [model |-> m_model, last_date |-> m_last_date, freq |-> m_freq]

\* model_class(**hyperparams): a fresh, unfitted instance
Model_init(variant) ==
    /\ m_variant' = variant
    /\ m_model' = NoModel
    /\ m_last_date' = NoDate
    /\ m_freq' = NoFreq
    /\ m_fit_completed' = FALSE

Model_fit(data, fail) ==
    /\ m_variant \in Variants
    /\ fail \in FailPoints(m_variant)
    /\ LET r == fit(m_variant, ThisModel, data, fail)
       IN  /\ m_model' = r.model
           /\ m_last_date' = r.last_date
           /\ m_freq' = r.freq
           /\ m_out' = r.out
           /\ m_fit_completed' = (m_fit_completed \/ r.out.kind = "ok")
    /\ m_call' = [op |-> "fit", data |-> data, horizon |-> 0]
    /\ UNCHANGED m_variant

Model_predict(horizon, libfail) ==
    /\ m_variant \in Variants
    /\ m_out' = predict(m_variant, ThisModel, horizon, libfail)
    /\ m_call' = [op |-> "predict", data |-> NoSeq, horizon |-> horizon]
    /\ UNCHANGED <<m_variant, m_model, m_last_date, m_freq, m_fit_completed>>

ModelInit ==
    /\ m_variant = "none" /\ m_model = NoModel
    /\ m_last_date = NoDate /\ m_freq = NoFreq
    /\ m_call = NoCall /\ m_out = NoOut /\ m_fit_completed = FALSE

\* ------------------------------------------------ utils/model_evaluation.py
\* what one metric function does when called: raises, or returns a value
MetricOutcomes ==
    {[kind |-> k, v |-> 0] : k \in {"raise", "nan", "inf", "neginf"}}
        \cup {[kind |-> "value", v |-> x] : x \in 0..MaxMetric}
Null == [null |-> TRUE, v |-> 0]
Float(x) == [null |-> FALSE, v |-> x]
EmptyDict == [n \in {} |-> Null]
\* AVAILABLE_METRICS, in insertion order
AvailableMetricNames == <<"mae", "rmse">>
MetricNames == {"mae", "rmse", "mape"}

\* one pass of the loop body without the try/except around it
metric_entry_uncaught(outcome) ==
    IF outcome.kind = "raise" THEN [raised |-> TRUE, value |-> Null]
    ELSE IF outcome.kind \in {"nan", "inf", "neginf"}
    THEN [raised |-> FALSE, value |-> Null]
    ELSE [raised |-> FALSE, value |-> Float(outcome.v)]

\* one pass of the loop body: the value stored under the name, and whether
\* an exception leaves the loop
metric_entry(outcome) ==
    IF outcome.kind = "raise" THEN [raised |-> FALSE, value |-> Null]
    ELSE IF outcome.kind \in {"nan", "inf", "neginf"}
    THEN [raised |-> FALSE, value |-> Null]
    ELSE [raised |-> FALSE, value |-> Float(outcome.v)]

RECURSIVE metrics_loop(_, _, _)
\* for name, func in metric_functions.items(): ... from item i on
metrics_loop(funcs, i, results) ==
    IF i > Len(funcs) THEN [raised |-> FALSE, results |-> results]
    ELSE LET e == metric_entry(funcs[i].outcome)
         IN  IF e.raised
             THEN [raised |-> TRUE, results |-> EmptyDict]
             ELSE metrics_loop(funcs, i + 1,
                     [n \in DOMAIN results \cup {funcs[i].name} |->
                         IF n = funcs[i].name THEN e.value ELSE results[n]])

calculate_metrics(funcs) == metrics_loop(funcs, 1, EmptyDict)

\* dicts of metric functions: distinct names, each with its behaviour
MetricFunctionDicts ==
    UNION {
        {f \in [1..k -> [name : MetricNames, outcome : MetricOutcomes]] :
            \A i, j \in 1..k : i # j => f[i].name # f[j].name}
        : k \in 0..MaxFuncs}

CalculateMetrics_call(funcs) ==
    /\ cm_funcs' = funcs
    /\ LET r == calculate_metrics(funcs)
       IN  /\ cm_status' = IF r.raised THEN "raised" ELSE "returned"
           /\ cm_results' = r.results

MetricInit ==
    /\ cm_funcs = <<>> /\ cm_status = "idle" /\ cm_results = EmptyDict

\* ------------------------- models/base.py and services/model_service.py
EvalPcts == {0, 50, 80, 100}
Horizons == (-1)..MaxHorizon
NoReq == [variant |-> "none", data |-> NoSeq, train_pct |-> NoPct, horizon |-> 0]
NoResult ==
    [set |-> FALSE, metrics |-> EmptyDict, forecast |-> NoOut,
     test_predictions |-> NoOut]
LogEntry(op, data, horizon, out) ==
    [op |-> op, data |-> data, horizon |-> horizon,
     ok |-> out.kind = "ok", from |-> out.from]
Ok == [kind |-> "ok", err |-> "", index |-> NoSeq, from |-> NoSeq]

\* an evaluate that keeps going after a step raised
evaluate_next_retrying(pc, ok) ==
    IF pc = "split" THEN "fit_train"
    ELSE IF pc = "fit_train" THEN (IF ok THEN "predict_test" ELSE "fit_train")
    ELSE IF pc = "predict_test" THEN "metrics"
    ELSE IF pc = "metrics" THEN "fit_full"
    ELSE IF pc = "fit_full" THEN "predict_horizon"
    ELSE IF ok THEN "returned" ELSE "raised"
\* an evaluate that forecasts from the train-only fit
evaluate_next_no_refit(pc, ok) ==
    IF ~ok THEN "raised"
    ELSE IF pc = "split" THEN "fit_train"
    ELSE IF pc = "fit_train" THEN "predict_test"
    ELSE IF pc = "predict_test" THEN "metrics"
    ELSE IF pc = "metrics" THEN "predict_horizon"
    ELSE IF pc = "fit_full" THEN "predict_horizon"
    ELSE "returned"

\* the statement of evaluate that follows statement pc; an exception in any
\* statement is caught nowhere and leaves the call
evaluate_next(pc, ok) ==
    IF ~ok THEN "raised"
    ELSE IF pc = "split" THEN "fit_train"
    ELSE IF pc = "fit_train" THEN "predict_test"
    ELSE IF pc = "predict_test" THEN "metrics"
    ELSE IF pc = "metrics" THEN "fit_full"
    ELSE IF pc = "fit_full" THEN "predict_horizon"
    ELSE "returned"

\* len(test_data) off by one
test_horizon_short(test) == Len(test) - 1
\* the horizon of the test prediction: len(test_data)
test_horizon(test) == Len(test)

\* train_and_evaluate is entered: model = model_class(**hyperparams),
\* splitter = HoldoutPctSplitter(train_pct=train_pct), metric_functions
TrainAndEvaluate_call(variant, data, train_pct, horizon) ==
    /\ ev_pc = "idle"
    /\ ev_req' = [variant |-> variant, data |-> data,
                  train_pct |-> train_pct, horizon |-> horizon]
    /\ Model_init(variant)
    /\ m_call' = NoCall /\ m_out' = NoOut
    /\ HoldoutPctSplitter_init(train_pct)
    /\ cm_funcs' = <<>> /\ cm_status' = "idle" /\ cm_results' = EmptyDict
    /\ ev_log' = <<>> /\ ev_test_pred' = NoOut /\ ev_metrics' = EmptyDict
    /\ ev_result' = NoResult
    /\ IF ValidPct(train_pct)
       THEN ev_pc' = "split" /\ ev_error' = ""
       ELSE ev_pc' = "raised" /\ ev_error' = "ValueError"
    /\ UNCHANGED <<appVars, recommendVars>>

\* train_data, test_data = splitter.split(data)
Evaluate_split ==
    /\ ev_pc = "split"
    /\ HoldoutPctSplitter_split(ev_req.data)
    /\ ev_log' = Append(ev_log, LogEntry("split", ev_req.data, 0, Ok))
    /\ ev_pc' = evaluate_next("split", TRUE)
    /\ UNCHANGED <<modelVars, metricVars, ev_req, ev_test_pred, ev_metrics,
                   ev_result, ev_error, appVars, recommendVars>>

\* self.fit(train_data)  and  self.fit(data)
Evaluate_fit(pc, data, fail) ==
    /\ ev_pc = pc
    /\ Model_fit(data, fail)
    /\ ev_log' = Append(ev_log, LogEntry("fit", data, 0, m_out'))
    /\ ev_pc' = evaluate_next(pc, m_out'.kind = "ok")
    /\ ev_error' = m_out'.err
    /\ UNCHANGED <<splitVars, metricVars, ev_req, ev_test_pred, ev_metrics,
                   ev_result, appVars, recommendVars>>

Evaluate_fit_train(fail) == Evaluate_fit("fit_train", sp_train, fail)
Evaluate_fit_full(fail) == Evaluate_fit("fit_full", ev_req.data, fail)

\* test_predictions = self.predict(len(test_data))
Evaluate_predict_test(libfail) ==
    /\ ev_pc = "predict_test"
    /\ Model_predict(test_horizon(sp_test), libfail)
    /\ ev_log' = Append(ev_log,
                    LogEntry("predict", NoSeq, test_horizon(sp_test), m_out'))
    /\ ev_pc' = evaluate_next("predict_test", m_out'.kind = "ok")
    /\ ev_error' = m_out'.err
    /\ ev_test_pred' = IF m_out'.kind = "ok" THEN m_out' ELSE ev_test_pred
    /\ UNCHANGED <<splitVars, metricVars, ev_req, ev_metrics, ev_result, appVars, recommendVars>>

\* metrics = calculate_metrics(test_data['value'], test_predictions['value'],
\*                             metric_functions)
Evaluate_metrics(outcomes) ==
    /\ ev_pc = "metrics"
    /\ CalculateMetrics_call(
          [i \in 1..Len(AvailableMetricNames) |->
              [name |-> AvailableMetricNames[i], outcome |-> outcomes[i]]])
    /\ ev_log' = Append(ev_log,
                    [op |-> "calculate_metrics", data |-> sp_test, horizon |-> 0,
                     ok |-> cm_status' = "returned", from |-> ev_test_pred.from])
    /\ ev_pc' = evaluate_next("metrics", cm_status' = "returned")
    /\ ev_error' = IF cm_status' = "returned" THEN "" ELSE "MetricError"
    /\ ev_metrics' = cm_results'
    /\ UNCHANGED <<splitVars, modelVars, ev_req, ev_test_pred, ev_result, appVars, recommendVars>>

\* forecast = self.predict(horizon); return metrics, forecast, test_predictions
Evaluate_predict_horizon(libfail) ==
    /\ ev_pc = "predict_horizon"
    /\ Model_predict(ev_req.horizon, libfail)
    /\ ev_log' = Append(ev_log,
                    LogEntry("predict", NoSeq, ev_req.horizon, m_out'))
    /\ ev_pc' = evaluate_next("predict_horizon", m_out'.kind = "ok")
    /\ ev_error' = m_out'.err
    /\ ev_result' =
          IF m_out'.kind = "ok"
          THEN [set |-> TRUE, metrics |-> ev_metrics, forecast |-> m_out',
                test_predictions |-> ev_test_pred]
          ELSE ev_result
    /\ UNCHANGED <<splitVars, metricVars, ev_req, ev_test_pred, ev_metrics, appVars, recommendVars>>

EvalInit ==
    /\ ev_pc = "idle" /\ ev_req = NoReq /\ ev_log = <<>>
    /\ ev_test_pred = NoOut /\ ev_metrics = EmptyDict
    /\ ev_result = NoResult /\ ev_error = ""

\* the whole of train_and_evaluate's body as one function of its arguments and
\* of what the library calls inside it do: fail names the fit or predict call
\* the library raises in ("none": in none), outcomes what the metric functions
\* do.  It performs the steps of evaluate_next in order on a fresh instance.
EvalFails == {"none", "fit_train", "predict_test", "fit_full", "predict_horizon"}
NoValue == [metrics |-> EmptyDict, forecast |-> NoOut, test_predictions |-> NoOut]
train_and_evaluate(variant, data, train_pct, horizon, fail, outcomes) ==
    LET m0 == [model |-> NoModel, last_date |-> NoDate, freq |-> NoFreq]
        train == split_train(data, train_pct)
        test == split_test(data, train_pct)
        f1 == fit(variant, m0, train,
                  IF fail = "fit_train" THEN "before_assign" ELSE "none")
        m1 == [model |-> f1.model, last_date |-> f1.last_date, freq |-> f1.freq]
        p1 == predict(variant, m1, test_horizon(test), fail = "predict_test")
        cm == calculate_metrics(
                 [i \in 1..Len(AvailableMetricNames) |->
                     [name |-> AvailableMetricNames[i], outcome |-> outcomes[i]]])
        f2 == fit(variant, m1, data,
                  IF fail = "fit_full" THEN "before_assign" ELSE "none")
        m2 == [model |-> f2.model, last_date |-> f2.last_date, freq |-> f2.freq]
        p2 == predict(variant, m2, horizon, fail = "predict_horizon")
        raise(e) == [ok |-> FALSE, err |-> e, value |-> NoValue]
    IN  IF ~ValidPct(train_pct) THEN raise("ValueError")
        ELSE IF f1.out.kind # "ok" THEN raise(f1.out.err)
        ELSE IF p1.kind # "ok" THEN raise(p1.err)
        ELSE IF cm.raised THEN raise("MetricError")
        ELSE IF f2.out.kind # "ok" THEN raise(f2.out.err)
        ELSE IF p2.kind # "ok" THEN raise(p2.err)
        ELSE [ok |-> TRUE, err |-> "",
              value |-> [metrics |-> cm.results, forecast |-> p2,
                         test_predictions |-> p1]]

\* ------------------------------------ config/settings.py, models/__init__.py
TRAIN_PCT_DEFAULT == 80
HORIZON_DEFAULT == 30
\* AVAILABLE_MODELS, in insertion order, and the class behind each name
ModelNames == <<"ARIMA", "PROPHET", "NBEATS">>
Models == {ModelNames[i] : i \in 1..Len(ModelNames)}
ModelClass(model) ==
    IF model = "ARIMA" THEN "arima"
    ELSE IF model = "PROPHET" THEN "prophet" ELSE "nbeats"
\* get_hyperparameters(): the parameter names in schema order, their defaults
HyperparameterNames(model) ==
    IF model = "ARIMA" THEN <<"p", "d", "q">>
    ELSE IF model = "PROPHET"
    THEN <<"changepoint_prior_scale", "seasonality_prior_scale",
           "seasonality_mode">>
    ELSE <<"input_chunk_length", "n_epochs", "scaler_type">>
HyperparameterDefaults(model) ==
    IF model = "ARIMA" THEN <<"1", "1", "1">>
    ELSE IF model = "PROPHET" THEN <<"0.05", "10.0", "additive">>
    ELSE <<"5", "10", "Standard (z-score)">>

\* ------------------------------------- models/arima.py: get_recommendations
\* get_hyperparameters(): 'min' and 'max' of the three integer parameters
HyperparameterMin(name) == 0
HyperparameterMax(name) == IF name = "d" THEN 2 ELSE 5

\* a correlation, in hundredths, or numpy's nan
Corr(c) == [nan |-> FALSE, c |-> c]
NaN == [nan |-> TRUE, c |-> 0]
\* abs(value) > 1.96 / np.sqrt(n), on a correlation of c hundredths:
\* (c / 100)^2 * n > 1.96^2; every comparison with nan is False
exceeds_confidence(value, n) == ~value.nan /\ value.c * value.c * n > 38416

\* what statsmodels makes of a series: n non-null values, the PACF or ACF
\* at lags 1, 2, ... (index 0, the lag 0, left out), or an exception
\* what adfuller makes of a series: a p-value, in thousandths, or an exception
Adf(p_value) == [raises |-> FALSE, p_value |-> p_value]
AdfRaises == [raises |-> TRUE, p_value |-> 0]
NoRec ==
    [fn |-> "none", n |-> 0, values |-> <<>>, adf |-> <<>>, raises |-> FALSE,
     out |-> 0]

\* a loop that does not stop at the first non-significant lag
RECURSIVE recommend_p_loop_no_break(_, _, _, _)
recommend_p_loop_no_break(values, n, lag, p) ==
    IF lag >= Min(Len(values) + 1, 6) THEN p
    ELSE recommend_p_loop_no_break(
             values, n, lag + 1,
             IF exceeds_confidence(values[lag], n) THEN lag ELSE p)
\* for lag in range(1, min(len(pacf_values), 6)): p = lag, or break
RECURSIVE recommend_p_loop(_, _, _, _)
recommend_p_loop(values, n, lag, p) ==
    IF lag >= Min(Len(values) + 1, 6) THEN p
    ELSE IF exceeds_confidence(values[lag], n)
         THEN recommend_p_loop(values, n, lag + 1, lag)
         ELSE p
\* recommend_p(data): n = len(clean_data), values = pacf(...)[1:], raises =
\* the try block raised
recommend_p(n, values, raises) ==
    IF n < 20 THEN 1
    ELSE IF raises THEN 1
    ELSE LET p == Min(recommend_p_loop(values, n, 1, 0), 5)
         IN  IF p = 0 THEN 1 ELSE p

\* for lag in range(1, min(len(acf_values), 6)): q = lag, or break
RECURSIVE recommend_q_loop(_, _, _, _)
recommend_q_loop(values, n, lag, q) ==
    IF lag >= Min(Len(values) + 1, 6) THEN q
    ELSE IF exceeds_confidence(values[lag], n)
         THEN recommend_q_loop(values, n, lag + 1, lag)
         ELSE q
\* recommend_q(data): as recommend_p, on acf(...)
recommend_q(n, values, raises) ==
    IF n < 20 THEN 1
    ELSE IF raises THEN 1
    ELSE LET q == Min(recommend_q_loop(values, n, 1, 0), 5)
         IN  IF q = 0 THEN 1 ELSE q

\* a recommend_d that returns the loop counter when the series never became
\* stationary
RECURSIVE recommend_d_loop_falls_through(_, _, _)
recommend_d_loop_falls_through(n, adf, d) ==
    IF d > 2 THEN d
    ELSE IF n - d < 10 THEN 1
    ELSE IF adf[d + 1].raises THEN 1
    ELSE IF adf[d + 1].p_value < 50 THEN d
    ELSE recommend_d_loop_falls_through(n, adf, d + 1)
\* for d in range(max_d + 1): adf[d + 1] is what adfuller makes of the series
\* differenced d times (its p-value in thousandths, or an exception); each
\* diff() turns one more leading value into NaN, so dropna() leaves n - d
RECURSIVE recommend_d_loop(_, _, _)
recommend_d_loop(n, adf, d) ==
    IF d > 2 THEN 1
    ELSE IF n - d < 10 THEN 1
    ELSE IF adf[d + 1].raises THEN 1
    ELSE IF adf[d + 1].p_value < 50 THEN d
    ELSE recommend_d_loop(n, adf, d + 1)
\* recommend_d(data, max_d=2)
recommend_d(n, adf) == IF n < 10 THEN 1 ELSE recommend_d_loop(n, adf, 0)

\* the analysis of one series: n, pacf, acf, adf and the two raise flags
\* get_recommendations(data): the value of each (value, explanation) pair
get_recommendations(analysis) ==
    [p |-> recommend_p(analysis.n, analysis.pacf, analysis.pacf_raises),
     d |-> recommend_d(analysis.n, analysis.adf),
     q |-> recommend_q(analysis.n, analysis.acf, analysis.acf_raises)]

\* direct calls of the three static methods
Recommend_p_call(n, values, raises) ==
    /\ rec' = [fn |-> "recommend_p", n |-> n, values |-> values,
               adf |-> <<>>, raises |-> raises,
               out |-> recommend_p(n, values, raises)]
    /\ UNCHANGED <<splitVars, modelVars, metricVars, evalVars, appVars>>
Recommend_q_call(n, values, raises) ==
    /\ rec' = [fn |-> "recommend_q", n |-> n, values |-> values,
               adf |-> <<>>, raises |-> raises,
               out |-> recommend_q(n, values, raises)]
    /\ UNCHANGED <<splitVars, modelVars, metricVars, evalVars, appVars>>
Recommend_d_call(n, adf) ==
    /\ rec' = [fn |-> "recommend_d", n |-> n, values |-> <<>>, adf |-> adf,
               raises |-> FALSE, out |-> recommend_d(n, adf)]
    /\ UNCHANGED <<splitVars, modelVars, metricVars, evalVars, appVars>>
RecommendInit == rec = NoRec

\* ------------------------------------------------------ state/app_state.py
Sessions == {"s1", "s2"}
\* Python's None, and a value that is not None
None == [some |-> FALSE]
Some(x) == [some |-> TRUE, v |-> x]

\* AppState.initialize(): every key is set only when it is absent
AppState_initialize(s) ==
    /\ ss_present' = [ss_present EXCEPT ![s] = TRUE]
    /\ ss_historical_data' =
          IF ss_present[s] THEN ss_historical_data
          ELSE [ss_historical_data EXCEPT ![s] = None]
    /\ ss_upload_key' =
          IF ss_present[s] THEN ss_upload_key
          ELSE [ss_upload_key EXCEPT ![s] = 0]
    /\ ss_model_trained' =
          IF ss_present[s] THEN ss_model_trained
          ELSE [ss_model_trained EXCEPT ![s] = [m \in Models |-> FALSE]]
    /\ ss_results' =
          IF ss_present[s] THEN ss_results
          ELSE [ss_results EXCEPT ![s] = [m \in Models |-> None]]
    /\ ss_train_pct' =
          IF ss_present[s] THEN ss_train_pct
          ELSE [ss_train_pct EXCEPT ![s] = [m \in Models |-> TRAIN_PCT_DEFAULT]]
    /\ ss_horizon' =
          IF ss_present[s] THEN ss_horizon
          ELSE [ss_horizon EXCEPT ![s] = [m \in Models |-> HORIZON_DEFAULT]]
    /\ UNCHANGED <<ss_predictions, ss_test_predictions, ss_trained_train_pct,
                   ss_trained_horizon, ss_hyperparams>>

\* a clear_all_models that leaves upload_key alone
AppState_clear_all_models_same_key(s) ==
    /\ ss_model_trained' = [ss_model_trained EXCEPT ![s] = [m \in Models |-> FALSE]]
    /\ ss_upload_key' = ss_upload_key
    /\ ss_results' = [ss_results EXCEPT ![s] = [m \in Models |-> None]]
    /\ ss_predictions' = [ss_predictions EXCEPT ![s] = [m \in Models |-> None]]
    /\ ss_test_predictions' =
          [ss_test_predictions EXCEPT ![s] = [m \in Models |-> None]]
    /\ ss_trained_train_pct' =
          [ss_trained_train_pct EXCEPT ![s] = [m \in Models |-> None]]
    /\ ss_trained_horizon' =
          [ss_trained_horizon EXCEPT ![s] = [m \in Models |-> None]]

\* AppState.clear_all_models()
AppState_clear_all_models(s) ==
    /\ ss_model_trained' = [ss_model_trained EXCEPT ![s] = [m \in Models |-> FALSE]]
    /\ ss_upload_key' = [ss_upload_key EXCEPT ![s] = @ + 1]
    /\ ss_results' = [ss_results EXCEPT ![s] = [m \in Models |-> None]]
    /\ ss_predictions' = [ss_predictions EXCEPT ![s] = [m \in Models |-> None]]
    /\ ss_test_predictions' =
          [ss_test_predictions EXCEPT ![s] = [m \in Models |-> None]]
    /\ ss_trained_train_pct' =
          [ss_trained_train_pct EXCEPT ![s] = [m \in Models |-> None]]
    /\ ss_trained_horizon' =
          [ss_trained_horizon EXCEPT ![s] = [m \in Models |-> None]]

\* a set_data that keeps the trained models
AppState_set_data_keeping_models(s, data) ==
    /\ ss_historical_data' = [ss_historical_data EXCEPT ![s] = Some(data)]
    /\ ss_upload_key' = [ss_upload_key EXCEPT ![s] = @ + 1]
    /\ UNCHANGED <<ss_present, ss_model_trained, ss_results, ss_predictions,
                   ss_test_predictions, ss_trained_train_pct,
                   ss_trained_horizon, ss_train_pct, ss_horizon,
                   ss_hyperparams>>

\* a set_data that puts the sliders and number inputs back to their defaults
AppState_set_data_resetting_settings(s, data) ==
    /\ ss_historical_data' = [ss_historical_data EXCEPT ![s] = Some(data)]
    /\ AppState_clear_all_models(s)
    /\ ss_train_pct' = [ss_train_pct EXCEPT ![s] = [m \in Models |-> TRAIN_PCT_DEFAULT]]
    /\ ss_horizon' = [ss_horizon EXCEPT ![s] = [m \in Models |-> HORIZON_DEFAULT]]
    /\ UNCHANGED <<ss_present, ss_hyperparams>>

\* AppState.set_data(data)
AppState_set_data(s, data) ==
    /\ ss_historical_data' = [ss_historical_data EXCEPT ![s] = Some(data)]
    /\ AppState_clear_all_models(s)
    /\ UNCHANGED <<ss_present, ss_train_pct, ss_horizon, ss_hyperparams>>

\* AppState.reset_all()
AppState_reset_all(s) ==
    /\ ss_historical_data' = [ss_historical_data EXCEPT ![s] = None]
    /\ AppState_clear_all_models(s)
    /\ ss_train_pct' = [ss_train_pct EXCEPT ![s] = [m \in Models |-> TRAIN_PCT_DEFAULT]]
    /\ ss_horizon' = [ss_horizon EXCEPT ![s] = [m \in Models |-> HORIZON_DEFAULT]]
    /\ UNCHANGED <<ss_present, ss_hyperparams>>

\* a set_model_results that does not record the horizon
AppState_set_model_results_no_horizon(s, model, metrics, preds, test_preds, train_pct, horizon) ==
    /\ ss_results' = [ss_results EXCEPT ![s][model] = Some(metrics)]
    /\ ss_predictions' = [ss_predictions EXCEPT ![s][model] = Some(preds)]
    /\ ss_test_predictions' =
          [ss_test_predictions EXCEPT ![s][model] = Some(test_preds)]
    /\ ss_trained_train_pct' =
          [ss_trained_train_pct EXCEPT ![s][model] = Some(train_pct)]
    /\ ss_trained_horizon' = ss_trained_horizon
    /\ ss_model_trained' = [ss_model_trained EXCEPT ![s][model] = TRUE]

\* AppState.set_model_results(model, metrics, predictions, test_predictions,
\*                            train_pct, horizon)
AppState_set_model_results(s, model, metrics, preds, test_preds, train_pct, horizon) ==
    /\ ss_results' = [ss_results EXCEPT ![s][model] = Some(metrics)]
    /\ ss_predictions' = [ss_predictions EXCEPT ![s][model] = Some(preds)]
    /\ ss_test_predictions' =
          [ss_test_predictions EXCEPT ![s][model] = Some(test_preds)]
    /\ ss_trained_train_pct' =
          [ss_trained_train_pct EXCEPT ![s][model] = Some(train_pct)]
    /\ ss_trained_horizon' =
          [ss_trained_horizon EXCEPT ![s][model] = Some(horizon)]
    /\ ss_model_trained' = [ss_model_trained EXCEPT ![s][model] = TRUE]

\* AppState.get_upload_key(), has_data(), get_all_trained_models()
AppState_get_upload_key(s) == ss_upload_key[s]
AppState_has_data(s) == ss_historical_data[s] # None
AppState_get_all_trained_models(s) == [m \in Models |-> ss_model_trained[s][m]]

\* ------------------- services/model_service.py: the @st.cache_resource wrapper
NoArgs ==
    [model_class |-> "none", data |-> NoSeq, train_pct |-> NoPct, horizon |-> 0,
     upload_key |-> 0, hyperparams |-> <<>>]
Idle == [pc |-> "idle", model |-> "", args |-> NoArgs]
\* what stays on the page after a script run: nothing (st.success is followed
\* by st.rerun()), or the st.error of a failed training
NoShown == [event |-> "none", model |-> "", err |-> ""]
Shows(s, shown) == ss_shown' = [ss_shown EXCEPT ![s] = shown]

\* a key that leaves the dataset version out
CacheKey_without_upload_key(args) == [args EXCEPT !.upload_key = 0]
\* a key that leaves the horizon out
CacheKey_without_horizon(args) == [args EXCEPT !.horizon = 0]

\* the key st.cache_resource hashes a call into: every argument of
\* train_and_evaluate (none is underscore-prefixed), the keyword arguments in
\* the order they were passed
CacheKey(args) ==
    [model_class |-> args.model_class, data |-> args.data,
     train_pct |-> args.train_pct, horizon |-> args.horizon,
     upload_key |-> args.upload_key, hyperparams |-> args.hyperparams]

\* a cache that never finds an entry
CacheKeys_none == {}
CacheKeys == {e.key : e \in cache}
CacheRead(key) == CHOOSE e \in cache : e.key = key
ProducerRuns(key) ==
    IF key \in DOMAIN producer_runs THEN producer_runs[key] ELSE 0

\* a wrapper that computes without taking the per-key lock
CacheLockFree_unlocked(key) == TRUE
\* cache.compute_value_lock(value_key) can be taken
CacheLockFree(key) == key \notin cache_locks

\* ------------------------------------------------------- ui/model_tab.py
\* render_hyperparameters: the widget values, in schema order
render_hyperparameters(s, model) ==
    [i \in 1..Len(HyperparameterNames(model)) |->
        [name |-> HyperparameterNames(model)[i],
         value |-> ss_hyperparams[s][model][HyperparameterNames(model)[i]]]]

\* the arguments the train button passes to train_and_evaluate
TrainArgs(s, model) ==
    [model_class |-> ModelClass(model), data |-> ss_historical_data[s].v,
     train_pct |-> ss_train_pct[s][model], horizon |-> ss_horizon[s][model],
     upload_key |-> AppState_get_upload_key(s),
     hyperparams |-> render_hyperparameters(s, model)]

\* the cached call returned value: set_model_results, st.success, st.rerun
TrainReturned(s, model, args, value) ==
    /\ AppState_set_model_results(s, model, value.metrics, value.forecast,
                                  value.test_predictions, args.train_pct,
                                  args.horizon)
    /\ Shows(s, NoShown)
    /\ ss_run' = [ss_run EXCEPT ![s] = Idle]
    /\ UNCHANGED <<ss_present, ss_historical_data, ss_upload_key, ss_train_pct,
                   ss_horizon, ss_hyperparams>>

\* an except clause that marks the model trained although nothing was stored
TrainFailed_marks_trained(s, model, err) ==
    /\ Shows(s, [event |-> "error", model |-> model, err |-> err])
    /\ ss_run' = [ss_run EXCEPT ![s] = Idle]
    /\ ss_model_trained' = [ss_model_trained EXCEPT ![s][model] = TRUE]
    /\ UNCHANGED <<ss_present, ss_historical_data, ss_upload_key,
                   ss_results, ss_predictions,
                   ss_test_predictions, ss_trained_train_pct,
                   ss_trained_horizon, ss_train_pct, ss_horizon,
                   ss_hyperparams>>
\* the cached call raised: except Exception shows st.error, stores nothing
TrainFailed(s, model, err) ==
    /\ Shows(s, [event |-> "error", model |-> model, err |-> err])
    /\ ss_run' = [ss_run EXCEPT ![s] = Idle]
    /\ UNCHANGED <<ss_present, ss_historical_data, ss_upload_key,
                   ss_model_trained, ss_results, ss_predictions,
                   ss_test_predictions, ss_trained_train_pct,
                   ss_trained_horizon, ss_train_pct, ss_horizon,
                   ss_hyperparams>>

\* the train button is clicked: the wrapper reads the cache; a hit returns the
\* stored value, a miss goes on to the lock
ModelTab_train(s, model) ==
    /\ ss_present[s] /\ ss_run[s] = Idle /\ AppState_has_data(s)
    /\ LET args == TrainArgs(s, model)
       IN  IF CacheKey(args) \in CacheKeys
           THEN TrainReturned(s, model, args, CacheRead(CacheKey(args)).value)
           ELSE /\ ss_run' = [ss_run EXCEPT ![s] =
                                [pc |-> "lock_wait", model |-> model,
                                 args |-> args]]
                /\ Shows(s, NoShown)
                /\ UNCHANGED <<ss_present, ss_historical_data, ss_upload_key,
                               ss_model_trained, ss_results, ss_predictions,
                               ss_test_predictions, ss_trained_train_pct,
                               ss_trained_horizon, ss_train_pct, ss_horizon,
                               ss_hyperparams>>
    /\ UNCHANGED <<cacheVars, coreVars, compareVars, sidebarVars>>

\* the lock is taken and the cache read again: another thread may have
\* computed the value in between
Cache_lock(s) ==
    /\ ss_run[s].pc = "lock_wait"
    /\ UNCHANGED <<coreVars, compareVars, sidebarVars>>
    /\ CacheLockFree(CacheKey(ss_run[s].args))
    /\ LET args == ss_run[s].args
       IN  IF CacheKey(args) \in CacheKeys
           THEN /\ TrainReturned(s, ss_run[s].model, args,
                                 CacheRead(CacheKey(args)).value)
                /\ UNCHANGED cacheVars
           ELSE /\ cache_locks' = cache_locks \cup {CacheKey(args)}
                /\ ss_run' = [ss_run EXCEPT ![s].pc = "computing"]
                /\ UNCHANGED <<ss_present, ss_historical_data, ss_upload_key,
                               ss_model_trained, ss_results, ss_predictions,
                               ss_test_predictions, ss_trained_train_pct,
                               ss_trained_horizon, ss_train_pct, ss_horizon,
                               ss_hyperparams, ss_shown, cache, producer_runs>>

\* a cache that also keeps an entry for a run that raised
cache_write_caching_failures(key, r, s) ==
    {e \in cache : e.key # key} \cup {[key |-> key, value |-> r.value, by |-> s]}
\* st.cache_resource stores what the function returns; when it raises, the
\* exception propagates and nothing is written
cache_write(key, r, s) ==
    IF r.ok
    THEN {e \in cache : e.key # key}
             \cup {[key |-> key, value |-> r.value, by |-> s]}
    ELSE cache

\* the producer runs: on return the value is written to the cache and handed
\* to the caller; an exception is not cached and reaches the except clause of
\* the tab, which shows it and stores nothing
Cache_compute(s, fail, outcomes) ==
    /\ ss_run[s].pc = "computing"
    /\ UNCHANGED <<coreVars, compareVars, sidebarVars>>
    /\ LET args == ss_run[s].args
           key == CacheKey(args)
           r == train_and_evaluate(args.model_class, args.data, args.train_pct,
                                   args.horizon, fail, outcomes)
       IN  /\ cache_locks' = cache_locks \ {key}
           /\ cache' = cache_write(key, r, s)
           /\ IF r.ok
              THEN /\ producer_runs' =
                         [k \in DOMAIN producer_runs \cup {key} |->
                             IF k = key THEN ProducerRuns(key) + 1
                             ELSE producer_runs[k]]
                   /\ TrainReturned(s, ss_run[s].model, args, r.value)
              ELSE /\ TrainFailed(s, ss_run[s].model, r.err)
                   /\ UNCHANGED producer_runs

\* the widgets of a model tab: slider, number input, hyperparameter inputs
ModelTab_set_train_pct(s, model, pct) ==
    /\ ss_present[s] /\ ss_run[s] = Idle /\ AppState_has_data(s)
    /\ ss_train_pct' = [ss_train_pct EXCEPT ![s][model] = pct]
    /\ UNCHANGED <<ss_present, ss_historical_data, ss_upload_key,
                   ss_model_trained, ss_results, ss_predictions,
                   ss_test_predictions, ss_trained_train_pct,
                   ss_trained_horizon, ss_horizon, ss_hyperparams, ss_run,
                   cacheVars, coreVars, compareVars, sidebarVars>>
    /\ Shows(s, NoShown)
ModelTab_set_horizon(s, model, h) ==
    /\ ss_present[s] /\ ss_run[s] = Idle /\ AppState_has_data(s)
    /\ ss_horizon' = [ss_horizon EXCEPT ![s][model] = h]
    /\ UNCHANGED <<ss_present, ss_historical_data, ss_upload_key,
                   ss_model_trained, ss_results, ss_predictions,
                   ss_test_predictions, ss_trained_train_pct,
                   ss_trained_horizon, ss_train_pct, ss_hyperparams, ss_run,
                   cacheVars, coreVars, compareVars, sidebarVars>>
    /\ Shows(s, NoShown)
ModelTab_set_hyperparameter(s, model, name, value) ==
    /\ ss_present[s] /\ ss_run[s] = Idle /\ AppState_has_data(s)
    /\ ss_hyperparams' = [ss_hyperparams EXCEPT ![s][model][name] = value]
    /\ UNCHANGED <<ss_present, ss_historical_data, ss_upload_key,
                   ss_model_trained, ss_results, ss_predictions,
                   ss_test_predictions, ss_trained_train_pct,
                   ss_trained_horizon, ss_train_pct, ss_horizon, ss_run,
                   cacheVars, coreVars, compareVars, sidebarVars>>
    /\ Shows(s, NoShown)

\* has_recommendations(): only ARIMAForecaster overrides it to True
has_recommendations(model) == model = "ARIMA"
\* AppState.set_hyperparameter(model_name, param_name, value), on the keys
\* '{model}_{param}' of one session; the widget shows str(value)
AppState_set_hyperparameter(hyperparams, model, name, value) ==
    [hyperparams EXCEPT ![model][name] = ToString(value)]
\* the "Get Recommendations" button: get_recommendations(historical_data),
\* set_hyperparameter for 'p', 'd', 'q', st.success (no st.rerun)
ModelTab_get_recommendations(s, model, analysis) ==
    /\ ss_present[s] /\ ss_run[s] = Idle /\ AppState_has_data(s)
    /\ has_recommendations(model)
    /\ LET recommendations == get_recommendations(analysis)
           hp1 == AppState_set_hyperparameter(ss_hyperparams[s], model, "p",
                                              recommendations.p)
           hp2 == AppState_set_hyperparameter(hp1, model, "d",
                                              recommendations.d)
           hp3 == AppState_set_hyperparameter(hp2, model, "q",
                                              recommendations.q)
       IN  ss_hyperparams' = [ss_hyperparams EXCEPT ![s] = hp3]
    /\ Shows(s, [event |-> "recommended", model |-> model, err |-> ""])
    /\ UNCHANGED <<ss_present, ss_historical_data, ss_upload_key,
                   ss_model_trained, ss_results, ss_predictions,
                   ss_test_predictions, ss_trained_train_pct,
                   ss_trained_horizon, ss_train_pct, ss_horizon, ss_run,
                   cacheVars, coreVars, compareVars, sidebarVars>>

\* ---------------------------------------------------- ui/comparison_tab.py
NoComparison ==
    [status |-> "none", session |-> "", selected |-> <<>>, reported |-> <<>>,
     chart |-> <<>>, leaderboard |-> <<>>]
\* AVAILABLE_METRICS[metric_key]['lower_is_better']
lower_is_better(metric_key) == TRUE

\* the trained models, in the order of AVAILABLE_MODELS
trained_model_names(s) ==
    SelectSeq(ModelNames, LAMBDA m : AppState_get_all_trained_models(s)[m])
\* train_pcts read from the sliders instead of the saved values
train_pcts_from_slider(s, names) ==
    [i \in 1..Len(names) |->
        [model |-> names[i], pct |-> ss_train_pct[s][names[i]]]]
\* train_pcts: the recorded percentage of every model in names
train_pcts(s, names) ==
    [i \in 1..Len(names) |->
        [model |-> names[i], pct |-> ss_trained_train_pct[s][names[i]].v]]
all_same_split(pcts) == \A i \in 1..Len(pcts) : pcts[i].pct = pcts[1].pct

\* a check of the selected models only
split_checked_models_selected(s, selected) == selected
\* the models whose recorded percentages are compared: every trained model
split_checked_models(s, selected) == trained_model_names(s)

\* the last of the models with the best value
best_model_last(models, values, lower) ==
    CHOOSE i \in 1..Len(models) :
        /\ \A j \in 1..Len(models) :
              IF lower THEN values[models[i]].v <= values[models[j]].v
              ELSE values[models[i]].v >= values[models[j]].v
        /\ \A j \in (i + 1)..Len(models) :
              values[models[j]].v # values[models[i]].v
\* min(metric_values, key=metric_values.get) / max(...): the position of the
\* first model, in dict order, whose value is the smallest / largest
best_model(models, values, lower) ==
    CHOOSE i \in 1..Len(models) :
        /\ \A j \in 1..Len(models) :
              IF lower THEN values[models[i]].v <= values[models[j]].v
              ELSE values[models[i]].v >= values[models[j]].v
        /\ \A j \in 1..(i - 1) :
              values[models[j]].v # values[models[i]].v

\* render_metric_leaderboard: the cards of one metric, or the TypeError that
\* min()/max() over a None and the format f"{value:,.2f}" of a None raise
render_metric_leaderboard(metric_key, lower, model_results, selected_models) ==
    LET metric_values ==
            [m \in DOMAIN model_results |-> model_results[m][metric_key]]
        best == best_model(selected_models, metric_values, lower)
        best_value == metric_values[selected_models[best]].v
    IN  IF metric_key \notin DOMAIN model_results[selected_models[1]]
        THEN \* "Silently returns if the metric doesn't exist in the results"
             [raised |-> FALSE, metric |-> metric_key, lower |-> lower,
              cards |-> <<>>]
        ELSE IF \E i \in 1..Len(selected_models) :
               metric_values[selected_models[i]].null
        THEN [raised |-> TRUE, metric |-> metric_key, lower |-> lower,
              cards |-> <<>>]
        ELSE [raised |-> FALSE, metric |-> metric_key, lower |-> lower,
              cards |->
                 [i \in 1..Len(selected_models) |->
                     [model |-> selected_models[i],
                      value |-> metric_values[selected_models[i]].v,
                      best |-> i = best,
                      delta |-> IF i = best THEN 0
                                ELSE metric_values[selected_models[i]].v
                                        - best_value]]]

RECURSIVE leaderboard_loop(_, _, _, _)
\* for metric_key, metric_config in AVAILABLE_METRICS.items(): from item i on
leaderboard_loop(i, model_results, selected_models, rows) ==
    IF i > Len(AvailableMetricNames) THEN [raised |-> FALSE, rows |-> rows]
    ELSE LET row == render_metric_leaderboard(
                        AvailableMetricNames[i],
                        lower_is_better(AvailableMetricNames[i]),
                        model_results, selected_models)
         IN  IF row.raised THEN [raised |-> TRUE, rows |-> rows]
             ELSE leaderboard_loop(i + 1, model_results, selected_models,
                                   Append(rows, row))

\* render_comparison_tab with the multiselect returning selected
render_comparison_tab(s, selected) ==
    LET names == trained_model_names(s)
        pcts == train_pcts(s, split_checked_models(s, selected))
        model_results ==
            [m \in {selected[i] : i \in 1..Len(selected)} |-> ss_results[s][m].v]
        board == leaderboard_loop(1, model_results, selected, <<>>)
        out(status, reported, chart, rows) ==
            [status |-> status, session |-> s, selected |-> selected,
             reported |-> reported, chart |-> chart, leaderboard |-> rows]
    IN  IF Len(names) = 0 THEN out("no_models", <<>>, <<>>, <<>>)
        ELSE IF Len(names) = 1 THEN out("one_model", <<>>, <<>>, <<>>)
        ELSE IF ~all_same_split(pcts)
        THEN out("split_mismatch", pcts, <<>>, <<>>)
        ELSE IF Len(selected) = 0 THEN out("no_selection", <<>>, <<>>, <<>>)
        ELSE IF board.raised THEN out("raised", <<>>, selected, board.rows)
        ELSE out("rendered", <<>>, selected, board.rows)

\* the selections the multiselect can return: trained models, none twice
Selections(s) ==
    {sel \in UNION {[1..k -> Models] : k \in 0..Len(ModelNames)} :
        /\ \A i \in 1..Len(sel) : ss_model_trained[s][sel[i]]
        /\ \A i, j \in 1..Len(sel) : i # j => sel[i] # sel[j]}

\* the comparison tab of a script run, the user having selected these models
\* (when the tab stops before the multiselect, the models the user is after)
ComparisonTab_render(s, selected) ==
    /\ ss_present[s] /\ ss_run[s] = Idle /\ AppState_has_data(s)
    /\ selected \in Selections(s)
    /\ cmp' = render_comparison_tab(s, selected)
    /\ UNCHANGED <<sessionVars, cacheVars, coreVars, sidebarVars>>

\* render_metric_leaderboard called on its own, with either kind of metric
Leaderboard_render(s, metric_key, lower, selected) ==
    /\ ss_present[s] /\ ss_run[s] = Idle /\ AppState_has_data(s)
    /\ selected \in Selections(s) /\ selected # <<>>
    /\ LET row == render_metric_leaderboard(
                      metric_key, lower,
                      [m \in {selected[i] : i \in 1..Len(selected)} |->
                          ss_results[s][m].v],
                      selected)
       IN  cmp' = [status |-> IF row.raised THEN "leaderboard_raised"
                                ELSE "leaderboard",
                   session |-> s, selected |-> selected, reported |-> <<>>,
                   chart |-> <<>>,
                   leaderboard |-> IF row.raised THEN <<>> ELSE <<row>>]
    /\ UNCHANGED <<sessionVars, cacheVars, coreVars, sidebarVars>>


\* ------------------------------------- state/app_state.py: preprocessing
AppState_set_preprocessing_state(s, pending, df, count) ==
    /\ ss_preprocessing_pending' = [ss_preprocessing_pending EXCEPT ![s] = pending]
    /\ ss_pending_df' = [ss_pending_df EXCEPT ![s] = df]
    /\ ss_pending_gap_count' = [ss_pending_gap_count EXCEPT ![s] = count]
AppState_clear_preprocessing_state(s) ==
    AppState_set_preprocessing_state(s, FALSE, None, 0)

\* ------------------------ utils/timeseries.py, services/data_service.py
\* an uploaded CSV file: a column of dates (days) and two numeric columns
NoFile == "none"
Files == {"gaps", "full", "unsorted", "short"}
Columns == <<"date", "a", "b">>
FileColumn(file, column) ==
    IF file = "gaps"
    THEN (IF column = "date" THEN <<1, 2, 4, 5>>
          ELSE IF column = "a" THEN <<2, 4, 8, 10>> ELSE <<5, 5, 7, 5>>)
    ELSE IF file = "full"
    THEN (IF column = "date" THEN <<1, 2, 3, 4>>
          ELSE IF column = "a" THEN <<1, 2, 3, 4>> ELSE <<5, 5, 5, 5>>)
    ELSE IF file = "unsorted"
    THEN (IF column = "date" THEN <<5, 1, 3, 4>>
          ELSE IF column = "a" THEN <<9, 1, 5, 7>> ELSE <<6, 6, 6, 6>>)
    ELSE (IF column = "date" THEN <<1, 2>>
          ELSE IF column = "a" THEN <<1, 2>> ELSE <<3, 3>>)

\* a dataframe with a DatetimeIndex and a 'value' column
DataFrame(index, value) == [index |-> index, value |-> value]
\* validate_columns: the two columns differ, the date column holds date
\* strings (not numbers), the value column holds numbers
validate_columns(file, date_column, value_column) ==
    /\ date_column # value_column
    /\ date_column = "date"
    /\ value_column \in {"a", "b"}
\* df.set_index('date').sort_index(): row k of the result is the row with the
\* k-th smallest date
sort_index(df) ==
    LET n == Len(df.index)
        rank(i) == Cardinality({j \in 1..n : df.index[j] < df.index[i]}) + 1
        row(k) == CHOOSE i \in 1..n : rank(i) = k
    IN  DataFrame([k \in 1..n |-> df.index[row(k)]],
                  [k \in 1..n |-> df.value[row(k)]])
prepare_dataframe(file, date_column, value_column) ==
    sort_index(DataFrame(FileColumn(file, date_column),
                         FileColumn(file, value_column)))

\* diffs.mode()[0]: the most common difference, the smallest one on a tie
most_common_diff(index) ==
    LET diffs == [i \in 1..(Len(index) - 1) |-> index[i + 1] - index[i]]
        count(d) == Cardinality({i \in 1..Len(diffs) : diffs[i] = d})
    IN  CHOOSE d \in {diffs[i] : i \in 1..Len(diffs)} :
            \A i \in 1..Len(diffs) :
                \/ count(diffs[i]) < count(d)
                \/ count(diffs[i]) = count(d) /\ d <= diffs[i]
\* pd.date_range(start=index.min(), end=index.max(), freq=freq), as a set
date_range(index, freq) ==
    {index[1] + k * freq : k \in 0..((index[Len(index)] - index[1]) \div freq)}
\* is_equally_spaced(df): (is_equal, freq, gaps_count); raises where
\* pd.infer_freq does.  Daily is the one frequency guessed here: the weekly,
\* monthly and hourly guesses need differences the files above do not have.
is_equally_spaced(df) ==
    IF Len(df.index) < 2
    THEN [raises |-> FALSE, is_equal |-> TRUE, freq |-> NoFreq, gaps_count |-> 0]
    ELSE IF InferFreqRaises(df.index)
    THEN [raises |-> TRUE, is_equal |-> FALSE, freq |-> NoFreq, gaps_count |-> 0]
    ELSE LET freq == IF infer_freq(df.index) # NoFreq THEN infer_freq(df.index)
                     ELSE IF most_common_diff(df.index) = DayFreq THEN DayFreq
                     ELSE NoFreq
             gaps == date_range(df.index, freq)
                        \ {df.index[i] : i \in 1..Len(df.index)}
         IN  IF freq = NoFreq
             THEN [raises |-> FALSE, is_equal |-> FALSE, freq |-> NoFreq,
                   gaps_count |-> 0]
             ELSE [raises |-> FALSE, is_equal |-> Cardinality(gaps) = 0,
                   freq |-> freq, gaps_count |-> Cardinality(gaps)]
check_gaps(df) ==
    LET r == is_equally_spaced(df)
    IN  [raises |-> r.raises,
         has_missing |-> ~r.is_equal /\ r.gaps_count > 0,
         missing_count |-> r.gaps_count]

\* df.reindex(full_range): the position in df of a date, 0 when it is missing
PositionOf(df, date) ==
    IF \E i \in 1..Len(df.index) : df.index[i] = date
    THEN CHOOSE i \in 1..Len(df.index) : df.index[i] = date
    ELSE 0
full_range(df) ==
    [k \in 1..((df.index[Len(df.index)] - df.index[1]) \div freq_or_D(df.index) + 1)
        |-> df.index[1] + (k - 1) * freq_or_D(df.index)]
\* interpolate(method='linear') at a missing date between its two neighbours
\* (the files above give whole numbers)
interpolated(df, date) ==
    LET before == CHOOSE i \in 1..(Len(df.index) - 1) :
                      df.index[i] < date /\ date < df.index[i + 1]
        span == df.index[before + 1] - df.index[before]
    IN  df.value[before]
          + ((df.value[before + 1] - df.value[before])
                * (date - df.index[before])) \div span
fill_gaps_interpolate(df) ==
    DataFrame(full_range(df),
              [k \in 1..Len(full_range(df)) |->
                  IF PositionOf(df, full_range(df)[k]) # 0
                  THEN df.value[PositionOf(df, full_range(df)[k])]
                  ELSE interpolated(df, full_range(df)[k])])
fill_gaps_zero(df) ==
    DataFrame(full_range(df),
              [k \in 1..Len(full_range(df)) |->
                  IF PositionOf(df, full_range(df)[k]) # 0
                  THEN df.value[PositionOf(df, full_range(df)[k])]
                  ELSE 0])
\* DataService.apply_preprocessing(df, method)
apply_preprocessing(df, method) ==
    IF method = "interpolate" THEN fill_gaps_interpolate(df)
    ELSE fill_gaps_zero(df)

\* --------------------------------------------------- app.py, ui/sidebar.py
\* the file in the uploader of this run: the uploader's key is
\* uploader_{upload_key}, so a new upload_key shows a new, empty uploader
uploaded_file(s) ==
    IF sb_uploader[s].key = ss_upload_key[s] THEN sb_uploader[s].file ELSE NoFile
\* render_sidebar when no widget of it was used: without a file it clears
\* the preprocessing state
render_sidebar(s) ==
    IF uploaded_file(s) = NoFile THEN AppState_clear_preprocessing_state(s)
    ELSE UNCHANGED preprocessingVars
\* st.rerun() after upload_key went up: the script runs again, the uploader
\* is a new, empty one and render_sidebar clears the preprocessing state
rerun_with_new_uploader(s) == AppState_clear_preprocessing_state(s)

\* a script run: AppState.initialize() at the top of main(), the sidebar
App_run(s) ==
    /\ ss_run[s] = Idle
    /\ AppState_initialize(s)
    /\ render_sidebar(s)
    /\ Shows(s, NoShown)
    /\ UNCHANGED <<ss_run, cacheVars, coreVars, compareVars, widgetVars>>

\* "Load Data": _handle_data_load on a series without gaps
Sidebar_load_data(s, data) ==
    /\ ss_present[s] /\ ss_run[s] = Idle
    /\ ss_upload_key[s] < MaxVersion
    /\ AppState_set_data(s, data)
    /\ rerun_with_new_uploader(s)
    /\ Shows(s, NoShown)
    /\ UNCHANGED <<ss_run, cacheVars, coreVars, compareVars, widgetVars>>

\* "Reset All"
Sidebar_reset_all(s) ==
    /\ ss_present[s] /\ ss_run[s] = Idle
    /\ ss_upload_key[s] < MaxVersion
    /\ AppState_reset_all(s)
    /\ rerun_with_new_uploader(s)
    /\ Shows(s, NoShown)
    /\ UNCHANGED <<ss_run, cacheVars, coreVars, compareVars, widgetVars>>

\* the sidebar widgets; each event runs the script, whose sidebar is rendered
\* with the new widget value
FILL_METHODS == <<"Linear interpolation", "Zeros">>
SidebarReady(s) == ss_present[s] /\ ss_run[s] = Idle
\* the sidebar reaches the preprocessing options or the load button
ColumnsValid(s) ==
    /\ uploaded_file(s) # NoFile
    /\ validate_columns(uploaded_file(s), sb_date_column[s], sb_value_column[s])
\* a file is dropped on the uploader, empty or not
Sidebar_upload(s, file) ==
    /\ SidebarReady(s) /\ file \in Files /\ file # uploaded_file(s)
    /\ sb_uploader' = [sb_uploader EXCEPT ![s] =
                          [key |-> ss_upload_key[s], file |-> file]]
    /\ Shows(s, NoShown)
    /\ UNCHANGED <<ss_present, ss_historical_data, ss_upload_key,
                   ss_model_trained, ss_results, ss_predictions,
                   ss_test_predictions, ss_trained_train_pct,
                   ss_trained_horizon, ss_train_pct, ss_horizon,
                   ss_hyperparams, ss_run, preprocessingVars, sb_date_column,
                   sb_value_column, sb_fill_method, cacheVars, coreVars,
                   compareVars>>
\* the file is removed: uploaded_file is None in the run that follows
Sidebar_remove_file(s) ==
    /\ SidebarReady(s) /\ uploaded_file(s) # NoFile
    /\ sb_uploader' = [sb_uploader EXCEPT ![s] =
                          [key |-> ss_upload_key[s], file |-> NoFile]]
    /\ AppState_clear_preprocessing_state(s)
    /\ Shows(s, NoShown)
    /\ UNCHANGED <<ss_present, ss_historical_data, ss_upload_key,
                   ss_model_trained, ss_results, ss_predictions,
                   ss_test_predictions, ss_trained_train_pct,
                   ss_trained_horizon, ss_train_pct, ss_horizon,
                   ss_hyperparams, ss_run, sb_date_column,
                   sb_value_column, sb_fill_method, cacheVars, coreVars,
                   compareVars>>
\* one of the two selectboxes is changed
Sidebar_select_columns(s, date_column, value_column) ==
    /\ SidebarReady(s) /\ uploaded_file(s) # NoFile
    /\ sb_date_column' = [sb_date_column EXCEPT ![s] = date_column]
    /\ sb_value_column' = [sb_value_column EXCEPT ![s] = value_column]
    /\ Shows(s, NoShown)
    /\ UNCHANGED <<ss_present, ss_historical_data, ss_upload_key,
                   ss_model_trained, ss_results, ss_predictions,
                   ss_test_predictions, ss_trained_train_pct,
                   ss_trained_horizon, ss_train_pct, ss_horizon,
                   ss_hyperparams, ss_run, preprocessingVars, sb_uploader,
                   sb_fill_method, cacheVars, coreVars, compareVars>>
\* the radio of the preprocessing options
Sidebar_select_fill_method(s, fill_method) ==
    /\ SidebarReady(s) /\ ColumnsValid(s) /\ ss_preprocessing_pending[s]
    /\ sb_fill_method' = [sb_fill_method EXCEPT ![s] = fill_method]
    /\ Shows(s, NoShown)
    /\ UNCHANGED <<ss_present, ss_historical_data, ss_upload_key,
                   ss_model_trained, ss_results, ss_predictions,
                   ss_test_predictions, ss_trained_train_pct,
                   ss_trained_horizon, ss_train_pct, ss_horizon,
                   ss_hyperparams, ss_run, preprocessingVars, sb_uploader,
                   sb_date_column, sb_value_column, cacheVars, coreVars,
                   compareVars>>

\* "Load Data" with "Remove Outliers" unticked: _handle_data_load
handle_data_load(s) ==
    LET df == prepare_dataframe(uploaded_file(s), sb_date_column[s],
                                sb_value_column[s])
        gaps == check_gaps(df)
    IN  IF gaps.raises
        THEN \* except Exception: st.sidebar.error, nothing is loaded
             /\ Shows(s, [event |-> "error", model |-> "", err |-> "load"])
             /\ UNCHANGED <<ss_present, ss_historical_data, ss_upload_key,
                            ss_model_trained, ss_results, ss_predictions,
                            ss_test_predictions, ss_trained_train_pct,
                            ss_trained_horizon, ss_train_pct, ss_horizon,
                            ss_hyperparams, preprocessingVars>>
        ELSE IF gaps.has_missing
        THEN /\ AppState_set_preprocessing_state(s, TRUE, Some(df),
                                                 gaps.missing_count)
             /\ Shows(s, NoShown)
             /\ UNCHANGED <<ss_present, ss_historical_data, ss_upload_key,
                            ss_model_trained, ss_results, ss_predictions,
                            ss_test_predictions, ss_trained_train_pct,
                            ss_trained_horizon, ss_train_pct, ss_horizon,
                            ss_hyperparams>>
        ELSE /\ AppState_set_data(s, df)
             /\ rerun_with_new_uploader(s)
             /\ Shows(s, NoShown)
Sidebar_click_load(s) ==
    /\ SidebarReady(s) /\ ColumnsValid(s) /\ ~ss_preprocessing_pending[s]
    /\ ss_upload_key[s] < MaxVersion
    /\ handle_data_load(s)
    /\ UNCHANGED <<ss_run, widgetVars, cacheVars, coreVars, compareVars>>

\* method = "interpolate" if fill_method == "Interpolate (linear)" else "zero"
fill_method_to_method(fill_method) ==
    IF fill_method = "Interpolate (linear)" THEN "interpolate" ELSE "zero"
\* "Apply and Load" in _render_preprocessing_options(pending_df, count)
Sidebar_click_apply(s) ==
    /\ SidebarReady(s) /\ ColumnsValid(s) /\ ss_preprocessing_pending[s]
    /\ ss_upload_key[s] < MaxVersion
    /\ AppState_set_data(s,
          apply_preprocessing(ss_pending_df[s].v,
                              fill_method_to_method(sb_fill_method[s])))
    /\ rerun_with_new_uploader(s)
    /\ Shows(s, NoShown)
    /\ UNCHANGED <<ss_run, widgetVars, cacheVars, coreVars, compareVars>>

AppInit ==
    /\ ss_present = [s \in Sessions |-> FALSE]
    /\ ss_historical_data = [s \in Sessions |-> None]
    /\ ss_upload_key = [s \in Sessions |-> 0]
    /\ ss_model_trained = [s \in Sessions |-> [m \in Models |-> FALSE]]
    /\ ss_results = [s \in Sessions |-> [m \in Models |-> None]]
    /\ ss_predictions = [s \in Sessions |-> [m \in Models |-> None]]
    /\ ss_test_predictions = [s \in Sessions |-> [m \in Models |-> None]]
    /\ ss_trained_train_pct = [s \in Sessions |-> [m \in Models |-> None]]
    /\ ss_trained_horizon = [s \in Sessions |-> [m \in Models |-> None]]
    /\ ss_train_pct = [s \in Sessions |-> [m \in Models |-> TRAIN_PCT_DEFAULT]]
    /\ ss_horizon = [s \in Sessions |-> [m \in Models |-> HORIZON_DEFAULT]]
    /\ ss_hyperparams =
          [s \in Sessions |-> [m \in Models |->
              [n \in {HyperparameterNames(m)[i] :
                          i \in 1..Len(HyperparameterNames(m))} |->
                  HyperparameterDefaults(m)[
                      CHOOSE i \in 1..Len(HyperparameterNames(m)) :
                          HyperparameterNames(m)[i] = n]]]]
    /\ ss_run = [s \in Sessions |-> Idle]
    /\ ss_shown = [s \in Sessions |-> NoShown]
    /\ cache = {} /\ cache_locks = {} /\ producer_runs = [k \in {} |-> 0]
    /\ cmp = NoComparison
    /\ ss_preprocessing_pending = [s \in Sessions |-> FALSE]
    /\ ss_pending_df = [s \in Sessions |-> None]
    /\ ss_pending_gap_count = [s \in Sessions |-> 0]
    /\ sb_uploader = [s \in Sessions |-> [key |-> 0, file |-> NoFile]]
    /\ sb_date_column = [s \in Sessions |-> Columns[1]]
    /\ sb_value_column = [s \in Sessions |-> Columns[2]]
    /\ sb_fill_method = [s \in Sessions |-> FILL_METHODS[1]]

\* --------------------------------------------------------- specifications
Init ==
    SplitInit /\ ModelInit /\ MetricInit /\ EvalInit /\ AppInit /\ RecommendInit

\* the splitter on its own: any train_pct, any series
Splitter_new(train_pct) ==
    HoldoutPctSplitter_init(train_pct) /\ UNCHANGED <<modelVars, metricVars, evalVars, appVars, recommendVars>>
Splitter_split(data) ==
    HoldoutPctSplitter_split(data) /\ UNCHANGED <<modelVars, metricVars, evalVars, appVars, recommendVars>>
NextSplit ==
    \/ \E train_pct \in (-1)..101 : Splitter_new(train_pct)
    \/ \E data \in DataSets : Splitter_split(data)
SpecSplit == Init /\ [][NextSplit]_vars

\* one model instance on its own: any order of fit and predict calls
Instance_new(variant) ==
    /\ Model_init(variant)
    /\ m_call' = NoCall /\ m_out' = NoOut
    /\ UNCHANGED <<splitVars, metricVars, evalVars, appVars, recommendVars>>
Instance_fit(data, fail) ==
    Model_fit(data, fail) /\ UNCHANGED <<splitVars, metricVars, evalVars, appVars, recommendVars>>
Instance_predict(horizon, libfail) ==
    Model_predict(horizon, libfail) /\ UNCHANGED <<splitVars, metricVars, evalVars, appVars, recommendVars>>
NextModel ==
    \/ \E variant \in Variants : Instance_new(variant)
    \/ \E data \in DataSets, fail \in {"none", "before_assign", "after_assign"} :
          Instance_fit(data, fail)
    \/ \E horizon \in Horizons, libfail \in BOOLEAN :
          Instance_predict(horizon, libfail)
SpecModel == Init /\ [][NextModel]_vars

\* calculate_metrics on its own: one call on any dict of metric functions
\* (the function keeps nothing between calls)
Metrics_call(funcs) ==
    /\ cm_status = "idle"
    /\ CalculateMetrics_call(funcs)
    /\ UNCHANGED <<splitVars, modelVars, evalVars, appVars, recommendVars>>
NextMetrics == \E funcs \in MetricFunctionDicts : Metrics_call(funcs)
SpecMetrics == Init /\ [][NextMetrics]_vars

\* one train_and_evaluate call, from entry to return or raise
NextEval ==
    \/ \E variant \in Variants, data \in DataSets, train_pct \in EvalPcts,
          horizon \in Horizons :
          TrainAndEvaluate_call(variant, data, train_pct, horizon)
    \/ Evaluate_split
    \/ \E fail \in {"none", "before_assign", "after_assign"} :
          Evaluate_fit_train(fail)
    \/ \E libfail \in BOOLEAN : Evaluate_predict_test(libfail)
    \/ \E outcomes \in [1..Len(AvailableMetricNames) -> MetricOutcomes] :
          Evaluate_metrics(outcomes)
    \/ \E fail \in {"none", "before_assign", "after_assign"} :
          Evaluate_fit_full(fail)
    \/ \E libfail \in BOOLEAN : Evaluate_predict_horizon(libfail)
SpecEval == Init /\ [][NextEval]_vars

\* one browser session: loading, resetting, configuring and training
AppData == {Regular(MaxLen, 1), Regular(MaxLen, 2)}
MetricsSeen == {<<[kind |-> "nan", v |-> 0], [kind |-> "value", v |-> 0]>>}
Session_clear_all_models(s) ==
    /\ ss_present[s] /\ ss_run[s] = Idle
    /\ ss_upload_key[s] < MaxVersion
    /\ AppState_clear_all_models(s)
    /\ UNCHANGED <<ss_present, ss_historical_data, ss_train_pct, ss_horizon,
                   ss_hyperparams, ss_run, cacheVars, coreVars, compareVars, sidebarVars>>
    /\ Shows(s, NoShown)
\* the horizon and the p of the ARIMA tab are moved before anything is trained
Session_set_horizon(s, h) ==
    cache = {} /\ ModelTab_set_horizon(s, "ARIMA", h)
Session_set_hyperparameter(s, value) ==
    cache = {} /\ ModelTab_set_hyperparameter(s, "ARIMA", "p", value)
NextSession ==
    \/ App_run("s1")
    \/ \E data \in AppData : Sidebar_load_data("s1", data)
    \/ Sidebar_reset_all("s1")
    \/ Session_clear_all_models("s1")
    \/ \E pct \in {70, TRAIN_PCT_DEFAULT} :
          ModelTab_set_train_pct("s1", "ARIMA", pct)
    \/ \E h \in {1, HORIZON_DEFAULT} : Session_set_horizon("s1", h)
    \/ \E value \in {"1", "2"} : Session_set_hyperparameter("s1", value)
    \/ \E model \in {"ARIMA", "PROPHET"} : ModelTab_train("s1", model)
    \/ Cache_lock("s1")
    \/ \E fail \in {"none", "fit_full"}, outcomes \in MetricsSeen :
          Cache_compute("s1", fail, outcomes)
SpecSession == Init /\ [][NextSession]_vars

\* two sessions on the process-wide cache.  Session s1 loads and reloads one
\* dataset and moves one widget of the ARIMA tab away from its default at a
\* time; session s2 loads that dataset or another one, once, and trains ARIMA
\* as configured by default.  At most MaxEntries values are computed.
Busy == {s \in Sessions : ss_run[s] # Idle}
RoomInCache == Cardinality(cache) + Cardinality(Busy) < MaxEntries
ArimaDefault(s) ==
    /\ ss_train_pct[s]["ARIMA"] = TRAIN_PCT_DEFAULT
    /\ ss_horizon[s]["ARIMA"] = HORIZON_DEFAULT
    /\ ss_hyperparams[s]["ARIMA"]["p"] = "1"
Shared_run(s) == App_run(s)
Shared_load_data(s, data) ==
    /\ s = "s1" => data = Regular(MaxLen, 1)
    /\ s = "s2" => ~AppState_has_data(s)
    /\ Sidebar_load_data(s, data)
Shared_set_train_pct(pct) ==
    /\ pct = TRAIN_PCT_DEFAULT \/ ArimaDefault("s1")
    /\ ModelTab_set_train_pct("s1", "ARIMA", pct)
Shared_set_horizon(h) ==
    /\ h = HORIZON_DEFAULT \/ ArimaDefault("s1")
    /\ ModelTab_set_horizon("s1", "ARIMA", h)
Shared_set_hyperparameter(value) ==
    /\ value = "1" \/ ArimaDefault("s1")
    /\ ModelTab_set_hyperparameter("s1", "ARIMA", "p", value)
Shared_train(s, model) ==
    /\ s = "s2" => model = "ARIMA"
    /\ AppState_has_data(s)
    /\ CacheKey(TrainArgs(s, model)) \in CacheKeys \/ RoomInCache
    /\ ModelTab_train(s, model)
Shared_lock(s) == Cache_lock(s)
Shared_compute(s, fail) ==
    \E outcomes \in MetricsSeen : Cache_compute(s, fail, outcomes)
NextCache ==
    \/ \E s \in Sessions : Shared_run(s)
    \/ \E s \in Sessions, data \in AppData : Shared_load_data(s, data)
    \/ \E pct \in {70, TRAIN_PCT_DEFAULT} : Shared_set_train_pct(pct)
    \/ \E h \in {1, HORIZON_DEFAULT} : Shared_set_horizon(h)
    \/ \E value \in {"1", "2"} : Shared_set_hyperparameter(value)
    \/ \E s \in Sessions, model \in {"ARIMA", "PROPHET"} : Shared_train(s, model)
    \/ \E s \in Sessions : Shared_lock(s)
    \/ \E s \in Sessions, fail \in {"none", "fit_full"} : Shared_compute(s, fail)
SpecCache == Init /\ [][NextCache]_vars

\* one session that loads a dataset, trains models with the split slider of
\* ARIMA and Prophet at 70 or 80 and then opens the comparison tab once, with
\* any selection
CompareMetrics ==
    {<<[kind |-> "nan", v |-> 0], [kind |-> "value", v |-> 0]>>,
     <<[kind |-> "value", v |-> 0], [kind |-> "value", v |-> 0]>>,
     <<[kind |-> "value", v |-> MaxMetric], [kind |-> "value", v |-> 0]>>}
NotCompared == cmp = NoComparison
Compare_run == NotCompared /\ App_run("s1")
Compare_load_data(data) ==
    NotCompared /\ ~AppState_has_data("s1") /\ Sidebar_load_data("s1", data)
Compare_set_train_pct(model, pct) ==
    NotCompared /\ ModelTab_set_train_pct("s1", model, pct)
Compare_train(model) ==
    /\ NotCompared /\ AppState_has_data("s1")
    /\ CacheKey(TrainArgs("s1", model)) \in CacheKeys \/ RoomInCache
    /\ ModelTab_train("s1", model)
Compare_lock == Cache_lock("s1")
Compare_compute(outcomes) == Cache_compute("s1", "none", outcomes)
Compare_render(selected) == NotCompared /\ ComparisonTab_render("s1", selected)
Compare_leaderboard(metric_key, lower, selected) ==
    NotCompared /\ Leaderboard_render("s1", metric_key, lower, selected)
NextCompare ==
    \/ Compare_run
    \/ Compare_load_data(Regular(MaxLen, 1))
    \/ \E model \in {"ARIMA", "PROPHET"}, pct \in {70, TRAIN_PCT_DEFAULT} :
          Compare_set_train_pct(model, pct)
    \/ \E model \in Models : Compare_train(model)
    \/ Compare_lock
    \/ \E outcomes \in CompareMetrics : Compare_compute(outcomes)
    \/ \E selected \in Selections("s1") : Compare_render(selected)
    \/ \E metric_key \in MetricNames, lower \in BOOLEAN,
          selected \in Selections("s1") :
          Compare_leaderboard(metric_key, lower, selected)
SpecCompare == Init /\ [][NextCompare]_vars

\* one session at the sidebar: files are uploaded, replaced and removed,
\* columns selected, data loaded directly or through the gap-handling
\* workflow, the ARIMA tab configured, everything reset
Pending_run == App_run("s1")
Pending_upload(file) == Sidebar_upload("s1", file)
Pending_remove_file == Sidebar_remove_file("s1")
Pending_select_columns(date_column, value_column) ==
    Sidebar_select_columns("s1", date_column, value_column)
Pending_select_fill_method(fill_method) ==
    Sidebar_select_fill_method("s1", fill_method)
Pending_click_load == Sidebar_click_load("s1")
Pending_click_apply == Sidebar_click_apply("s1")
Pending_reset_all == Sidebar_reset_all("s1")
Pending_set_train_pct(pct) == ModelTab_set_train_pct("s1", "ARIMA", pct)
Pending_set_hyperparameter(value) ==
    ModelTab_set_hyperparameter("s1", "ARIMA", "p", value)
NextSidebar ==
    \/ Pending_run
    \/ \E file \in Files : Pending_upload(file)
    \/ Pending_remove_file
    \/ \E date_column \in {"date", "a"}, value_column \in {"a", "b"} :
          Pending_select_columns(date_column, value_column)
    \/ \E fill_method \in {FILL_METHODS[1], FILL_METHODS[2]} :
          Pending_select_fill_method(fill_method)
    \/ Pending_click_load
    \/ Pending_click_apply
    \/ Pending_reset_all
    \/ \E pct \in {70, TRAIN_PCT_DEFAULT} : Pending_set_train_pct(pct)
    \/ \E value \in {"1", "2"} : Pending_set_hyperparameter(value)
SpecSidebar == Init /\ [][NextSidebar]_vars

\* the recommend_* methods of ARIMAForecaster called directly on every outcome
\* of the analysis, or one session that loads a dataset, trains ARIMA once and
\* asks the ARIMA tab for recommendations
Correlations == {NaN, Corr(43), Corr(44), Corr(0 - 50)}
AdfOutcomes == {Adf(10), Adf(900), AdfRaises}
\* k significant lags, then none
LeadingRun(k) == [lag \in 1..6 |-> IF lag <= k THEN Corr(50) ELSE Corr(0)]
TabAnalyses ==
    {[n |-> n, pacf |-> LeadingRun(kp), pacf_raises |-> raises,
      acf |-> LeadingRun(kq), acf_raises |-> raises, adf |-> adf] :
        n \in {9, 25}, kp \in {0, 3, 6}, kq \in {0, 2, 6},
        raises \in BOOLEAN, adf \in [1..3 -> {Adf(10), Adf(900)}]}
Direct_recommend_p ==
    /\ ~ss_present["s1"] /\ rec = NoRec
    /\ \E n \in {19, 20}, values \in [1..6 -> Correlations], raises \in BOOLEAN :
          Recommend_p_call(n, values, raises)
Direct_recommend_q ==
    /\ ~ss_present["s1"] /\ rec = NoRec
    /\ \E n \in {19, 20}, values \in [1..6 -> Correlations], raises \in BOOLEAN :
          Recommend_q_call(n, values, raises)
Direct_recommend_d ==
    /\ ~ss_present["s1"] /\ rec = NoRec
    /\ \E n \in {9, 10, 11, 12}, adf \in [1..3 -> AdfOutcomes] :
          Recommend_d_call(n, adf)
Tab_run == rec = NoRec /\ App_run("s1")
Tab_load_data(data) == ~AppState_has_data("s1") /\ Sidebar_load_data("s1", data)
Tab_train == cache = {} /\ ModelTab_train("s1", "ARIMA")
Tab_lock == Cache_lock("s1")
Tab_compute(fail) ==
    \E outcomes \in MetricsSeen : Cache_compute("s1", fail, outcomes)
Tab_get_recommendations ==
    /\ ss_present["s1"]
    /\ \E analysis \in TabAnalyses :
          ModelTab_get_recommendations("s1", "ARIMA", analysis)
NextRecommend ==
    \/ Direct_recommend_p
    \/ Direct_recommend_q
    \/ Direct_recommend_d
    \/ Tab_run
    \/ \E data \in AppData : Tab_load_data(data)
    \/ Tab_train
    \/ Tab_lock
    \/ \E fail \in {"none", "fit_full"} : Tab_compute(fail)
    \/ Tab_get_recommendations
SpecRecommend == Init /\ [][NextRecommend]_vars

Spec == SpecEval

\* ----------------------------------------------------------------- claims

\* C1: for a series of n >= 2 rows and a train_pct in (0,100), split returns
\* a non-empty train and a non-empty test that together are the series: train
\* is its first rows, test the rest, in the original order, and every train
\* row precedes every test row in time.
C1_SplitPartitionsInOrder ==
    (sp_status = "split_done" /\ Len(sp_data) >= 2) =>
        /\ Len(sp_train) >= 1
        /\ Len(sp_test) >= 1
        /\ Len(sp_train) + Len(sp_test) = Len(sp_data)
        /\ sp_train \o sp_test = sp_data
        /\ \A i \in DOMAIN sp_train, j \in DOMAIN sp_test : sp_train[i] < sp_test[j]
C1_Witness ==
    /\ sp_status = "split_done" /\ Len(sp_data) = 5 /\ sp_train_pct = 50
    /\ Len(sp_train) = 2 /\ Len(sp_test) = 3

\* C2 as stated: for n >= 2 the length of train is the share n * train_pct / 100
\* rounded to the nearest integer, clamped to [1, n - 1].
C2_SplitIndexIsRounded ==
    (sp_status = "split_done" /\ Len(sp_data) >= 2) =>
        Len(sp_train) = split_idx_rounded(Len(sp_data), sp_train_pct)
\* C2 as amended: for n >= 2 the length of train is the share n * train_pct / 100
\* truncated to an integer (rounded down), clamped to [1, n - 1].
C2_SplitIndexIsTruncated ==
    (sp_status = "split_done" /\ Len(sp_data) >= 2) =>
        LET n == Len(sp_data)
            share == (n * sp_train_pct) \div 100
        IN  /\ share * 100 <= n * sp_train_pct
            /\ n * sp_train_pct < (share + 1) * 100
            /\ Len(sp_train) =
                  (IF share < 1 THEN 1 ELSE IF share > n - 1 THEN n - 1 ELSE share)
C2_Witness ==
    /\ sp_status = "split_done" /\ Len(sp_data) = 4 /\ sp_train_pct = 70
    /\ Len(sp_train) = 2 /\ Len(sp_test) = 2

\* C3: constructing and applying the splitter fails exactly when train_pct is
\* outside (0,100) or the series has fewer than 2 points: the constructor
\* raises exactly for a train_pct outside (0,100), and no split of a series of
\* 0 or 1 points returns, so no returned train or test is empty.
C3_FailsExactlyOnBadInput ==
    /\ (sp_status = "ctor_error" <=> (sp_status # "new" /\ ~ValidPct(sp_arg)))
    /\ (sp_status = "split_done" =>
            /\ Len(sp_data) >= 2
            /\ Len(sp_train) >= 1
            /\ Len(sp_test) >= 1)

\* the model operations of one evaluate call on the request, in order
ExpectedOps ==
    << [op |-> "split", data |-> ev_req.data, horizon |-> 0],
       [op |-> "fit", data |-> sp_train, horizon |-> 0],
       [op |-> "predict", data |-> NoSeq, horizon |-> Len(sp_test)],
       [op |-> "calculate_metrics", data |-> sp_test, horizon |-> 0],
       [op |-> "fit", data |-> ev_req.data, horizon |-> 0],
       [op |-> "predict", data |-> NoSeq, horizon |-> ev_req.horizon] >>

\* C4: every evaluate call performs split(full), fit(train),
\* predict(len(test)), calculate_metrics(test, test predictions), fit(full),
\* predict(horizon) in this order whatever the model variant, a successful
\* call performs all six, its metrics and test predictions come from the model
\* fitted on train only and its forecast from the model fitted on the full
\* series.
C4_EvaluateSequence ==
    /\ Len(ev_log) <= Len(ExpectedOps)
    /\ \A i \in 1..Len(ev_log) :
          /\ ev_log[i].op = ExpectedOps[i].op
          /\ ev_log[i].data = ExpectedOps[i].data
          /\ ev_log[i].horizon = ExpectedOps[i].horizon
    /\ ev_pc = "returned" =>
          /\ Len(ev_log) = Len(ExpectedOps)
          /\ ev_log[3].from = sp_train
          /\ ev_log[4].from = sp_train
          /\ ev_result.test_predictions.from = sp_train
          /\ ev_log[6].from = ev_req.data
          /\ ev_result.forecast.from = ev_req.data
C4_Witness ==
    /\ ev_pc = "returned" /\ ev_req.variant = "prophet"
    /\ Len(ev_req.data) = 6 /\ Len(sp_train) = 4 /\ ev_result.set

\* C5: a successful evaluate call on a series of n >= 2 rows with horizon
\* h >= 1 returns as many test predictions as the test set has rows and a
\* forecast of h rows.
C5_ResultLengths ==
    (ev_pc = "returned" /\ Len(ev_req.data) >= 2 /\ ev_req.horizon >= 1) =>
        /\ ev_result.set
        /\ Len(ev_result.test_predictions.index) = Len(sp_test)
        /\ Len(ev_result.forecast.index) = ev_req.horizon
C5_Witness ==
    /\ ev_pc = "returned" /\ ev_req.variant = "arima"
    /\ Len(ev_req.data) = 5 /\ ev_req.horizon = 2
    /\ Len(sp_test) = 1 /\ Len(ev_result.forecast.index) = 2

C7_BadHorizonRaises ==
    [][(m_call'.op = "predict" /\ m_call'.horizon < 1) =>
          /\ m_out' = Raised("InvalidHorizon")
          /\ UNCHANGED <<m_variant, m_model, m_last_date, m_freq, m_fit_completed>>]_vars
C7_Witness ==
    /\ m_call.op = "predict" /\ m_call.horizon = -1
    /\ m_model.state = "fit" /\ m_out = Raised("InvalidHorizon")

\* C8: a predict(h) that returns, h >= 1, returns h rows whose timestamps are
\* self._last_date + k * self._freq for k = 1..h, the values the most recent
\* fit stored, all later than self._last_date.
C8_FutureIndexFollowsLastFit ==
    (m_call.op = "predict" /\ m_out.kind = "ok") =>
        /\ m_call.horizon >= 1
        /\ Len(m_out.index) = m_call.horizon
        /\ \A k \in 1..Len(m_out.index) :
              /\ m_out.index[k] = m_last_date + k * m_freq
              /\ m_out.index[k] > m_last_date

\* C9: calculate_metrics returns a dict with exactly one entry per metric
\* name; the entry is null when that metric's function raises or returns NaN
\* or an infinity and its finite value otherwise, whatever the other metrics
\* do; calculate_metrics itself never raises.
C9_OneEntryPerMetric ==
    cm_status # "idle" =>
        /\ cm_status = "returned"
        /\ DOMAIN cm_results = {cm_funcs[i].name : i \in 1..Len(cm_funcs)}
        /\ \A i \in 1..Len(cm_funcs) :
              cm_results[cm_funcs[i].name] =
                  IF cm_funcs[i].outcome.kind = "value"
                  THEN Float(cm_funcs[i].outcome.v)
                  ELSE Null
C9_Witness ==
    /\ cm_status = "returned" /\ Len(cm_funcs) = 2
    /\ cm_funcs[1].outcome.kind = "raise"
    /\ cm_funcs[2].outcome = [kind |-> "value", v |-> 1]
    /\ cm_results[cm_funcs[1].name] = Null
    /\ cm_results[cm_funcs[2].name] = Float(1)

\* C10: when a fit or predict step of evaluate raises, the call raises to its
\* caller with that step's exception, returns no result, and performs no
\* further model operation: a failed step is the last one of the call.
C10_FailureEndsTheCall ==
    /\ \A i \in 1..Len(ev_log) :
          ~ev_log[i].ok =>
              /\ i = Len(ev_log)
              /\ ev_log[i].op \in {"fit", "predict"}
              /\ ev_pc = "raised"
              /\ m_out.kind = "raise"
              /\ ev_error = m_out.err
    /\ ev_pc = "raised" =>
          /\ ev_error # ""
          /\ ~ev_result.set
          /\ ev_log # <<>> => ~ev_log[Len(ev_log)].ok
    /\ ev_result.set => ev_pc = "returned"
C10_Witness ==
    /\ ev_pc = "raised" /\ Len(ev_log) = 5 /\ ev_log[5].op = "fit"
    /\ ~ev_log[5].ok /\ ev_error = "LibraryError" /\ ~ev_result.set
    /\ ev_metrics # EmptyDict

\* C13: upload_key never decreases in any step (script run, set_data,
\* clear_all_models, reset_all, training), and every step that changes
\* historical_data strictly increases it; so within one session the cache
\* entries made under one upload_key were all made from the same dataset.
C13_UploadKeyMonotone ==
    /\ [][\A s \in Sessions :
            /\ ss_upload_key'[s] >= ss_upload_key[s]
            /\ ss_historical_data'[s] # ss_historical_data[s] =>
                   ss_upload_key'[s] > ss_upload_key[s]]_vars
    /\ [](\A e1, e2 \in cache :
            e1.key.upload_key = e2.key.upload_key => e1.key.data = e2.key.data)
C13_Witness ==
    /\ ss_upload_key["s1"] = 2
    /\ ss_historical_data["s1"] = Some(Regular(MaxLen, 2))
    /\ \E e1, e2 \in cache :
          /\ e1.key.upload_key = 1 /\ e1.key.data = Regular(MaxLen, 1)
          /\ e2.key.upload_key = 2 /\ e2.key.data = Regular(MaxLen, 2)

\* C19: a model whose trained flag is True holds metrics, forecast and test
\* predictions that one producer run computed from the dataset now stored as
\* historical_data (under the current upload_key), and a step that replaces
\* or clears historical_data leaves every trained flag False and every stored
\* result None.
StoredValue(s, m) ==
    [metrics |-> ss_results[s][m].v, forecast |-> ss_predictions[s][m].v,
     test_predictions |-> ss_test_predictions[s][m].v]
C19_TrainedOnCurrentData ==
    /\ [](\A s \in Sessions, m \in Models :
            ss_model_trained[s][m] =>
                /\ ss_historical_data[s].some
                /\ ss_results[s][m].some /\ ss_predictions[s][m].some
                /\ ss_test_predictions[s][m].some
                /\ ss_predictions[s][m].v.from = ss_historical_data[s].v
                /\ ss_test_predictions[s][m].v.from =
                       split_train(ss_historical_data[s].v,
                                   ss_trained_train_pct[s][m].v)
                /\ \E e \in cache :
                       /\ e.key.model_class = ModelClass(m)
                       /\ e.key.data = ss_historical_data[s].v
                       /\ e.key.upload_key = ss_upload_key[s]
                       /\ e.value = StoredValue(s, m))
    /\ [][\A s \in Sessions :
            (\/ ss_historical_data'[s] # ss_historical_data[s]
             \/ ss_upload_key'[s] # ss_upload_key[s]) =>
                \A m \in Models :
                    /\ ~ss_model_trained'[s][m]
                    /\ ss_results'[s][m] = None
                    /\ ss_predictions'[s][m] = None
                    /\ ss_test_predictions'[s][m] = None]_vars
C19_Witness ==
    /\ ss_model_trained["s1"]["ARIMA"] /\ ss_model_trained["s1"]["PROPHET"]
    /\ ss_upload_key["s1"] = 2
    /\ ss_historical_data["s1"] = Some(Regular(MaxLen, 2))
    /\ ss_predictions["s1"]["ARIMA"].v.from = Regular(MaxLen, 2)
    /\ \E e \in cache :
          e.key.upload_key = 1 /\ e.key.data = Regular(MaxLen, 1)

\* C20: for every model the trained flag is True exactly when the stored
\* metrics, forecast, test predictions, recorded train_pct and recorded
\* horizon are not None, and these five are None or not None together.
C20_SixFieldsTogether ==
    \A s \in Sessions, m \in Models :
        /\ ss_results[s][m].some = ss_model_trained[s][m]
        /\ ss_predictions[s][m].some = ss_model_trained[s][m]
        /\ ss_test_predictions[s][m].some = ss_model_trained[s][m]
        /\ ss_trained_train_pct[s][m].some = ss_model_trained[s][m]
        /\ ss_trained_horizon[s][m].some = ss_model_trained[s][m]
C20_Witness ==
    /\ ss_model_trained["s1"]["ARIMA"] /\ ~ss_model_trained["s1"]["PROPHET"]
    /\ ss_upload_key["s1"] = 2
    /\ ss_trained_train_pct["s1"]["ARIMA"] = Some(70)
    /\ ss_trained_horizon["s1"]["ARIMA"] = Some(HORIZON_DEFAULT)
    /\ ss_results["s1"]["PROPHET"] = None
    /\ \E e \in cache : e.key.model_class = "prophet" /\ e.key.upload_key = 1

\* the step stores a training result for model m of session s
Stores(s, m) ==
    /\ ss_model_trained'[s][m]
    /\ <<ss_model_trained[s][m], ss_results[s][m], ss_predictions[s][m],
         ss_test_predictions[s][m], ss_trained_train_pct[s][m],
         ss_trained_horizon[s][m]>> #
       <<ss_model_trained'[s][m], ss_results'[s][m], ss_predictions'[s][m],
         ss_test_predictions'[s][m], ss_trained_train_pct'[s][m],
         ss_trained_horizon'[s][m]>>
\* the six arguments of the request whose result that step stores
StoredArgs(s, m) ==
    [model_class |-> ModelClass(m), data |-> ss_historical_data[s].v,
     train_pct |-> ss_trained_train_pct'[s][m].v,
     horizon |-> ss_trained_horizon'[s][m].v,
     upload_key |-> ss_upload_key[s],
     hyperparams |-> render_hyperparameters(s, m)]

\* C11: a train request whose six arguments equal those of an earlier request
\* that completed successfully gets the value stored then, and no producer
\* run is started or completed for it: the cache and the run counts are
\* unchanged by it, no session starts computing a key that has an entry, and
\* no key ever has more than one completed producer run.
C11_OneProducerRunPerKey ==
    /\ [][\A s \in Sessions, m \in Models :
            (Stores(s, m) /\ \E e \in cache : e.key = StoredArgs(s, m)) =>
                /\ UNCHANGED <<cache, producer_runs>>
                /\ ss_run[s].pc # "computing"
                /\ \E e \in cache :
                       /\ e.key = StoredArgs(s, m)
                       /\ e.value = StoredValue(s, m)']_vars
    /\ [][\A s \in Sessions :
            (ss_run'[s].pc = "computing" /\ ss_run[s].pc # "computing") =>
                \A e \in cache : e.key # ss_run'[s].args]_vars
    /\ [](\A k \in DOMAIN producer_runs : producer_runs[k] <= 1)
C11_Witness ==
    /\ ss_model_trained["s1"]["ARIMA"] /\ ss_model_trained["s2"]["ARIMA"]
    /\ ss_upload_key["s1"] = ss_upload_key["s2"]
    /\ ss_historical_data["s1"] = ss_historical_data["s2"]
    /\ ss_trained_train_pct["s1"]["ARIMA"] = ss_trained_train_pct["s2"]["ARIMA"]
    /\ ss_trained_horizon["s1"]["ARIMA"] = ss_trained_horizon["s2"]["ARIMA"]
    /\ StoredValue("s1", "ARIMA") = StoredValue("s2", "ARIMA")
    /\ Cardinality(cache) = 1
    /\ \A k \in DOMAIN producer_runs : producer_runs[k] = 1

\* the step is the first successful training of model m in session s since
\* the session's upload_key last changed
FirstTrained(s, m) == ~ss_model_trained[s][m] /\ ss_model_trained'[s][m]
\* the step completes a producer run started by session s
Fresh(s) ==
    /\ ss_run[s].pc = "computing"
    /\ \E e \in cache' : e.key = ss_run[s].args /\ e.by = s /\ e \notin cache

\* C12 as stated: the first successful request for a model under a new
\* upload_key always runs a fresh computation.
C12_FirstRequestIsFresh ==
    [][\A s \in Sessions, m \in Models : FirstTrained(s, m) => Fresh(s)]_vars

\* C12: every value a session stores comes from the entry whose key holds the
\* session's current upload_key and data, so an entry made under another
\* upload_key is never hit; the first successful request for a model under a
\* new upload_key runs a fresh computation, also when the reloaded data is
\* the same, unless the entry for the same six arguments was computed for
\* another session.
C12_NoHitAcrossVersions ==
    /\ [][\A s \in Sessions, m \in Models :
            Stores(s, m) =>
                \E e \in cache' :
                    /\ e.key = StoredArgs(s, m)
                    /\ e.key.upload_key = ss_upload_key'[s]
                    /\ e.key.data = ss_historical_data'[s].v
                    /\ e.value = StoredValue(s, m)']_vars
    /\ [][\A s \in Sessions, m \in Models :
            FirstTrained(s, m) =>
                \/ Fresh(s)
                \/ \E e \in cache :
                       e.key = StoredArgs(s, m) /\ e.by # s]_vars
C12_Witness ==
    /\ ss_upload_key["s1"] = 2 /\ ss_model_trained["s1"]["ARIMA"]
    /\ ~ss_present["s2"]
    /\ \E e1, e2 \in cache :
          /\ e1.key.upload_key = 1 /\ e2.key.upload_key = 2
          /\ e1.by = "s1" /\ e2.by = "s1"
          /\ [e1.key EXCEPT !.upload_key = 2] = e2.key
          /\ e2.value = StoredValue("s1", "ARIMA")
    /\ \A k \in DOMAIN producer_runs : producer_runs[k] = 1

\* two keys agree on model variant, dataset version, split percentage,
\* horizon and every hyperparameter value
AgreeOnFive(k1, k2) ==
    /\ k1.model_class = k2.model_class /\ k1.upload_key = k2.upload_key
    /\ k1.train_pct = k2.train_pct /\ k1.horizon = k2.horizon
    /\ k1.hyperparams = k2.hyperparams

Compared == cmp.status \notin {"none", "leaderboard", "leaderboard_raised"}
RecordedPct(m) == ss_trained_train_pct[cmp.session][m].v
SelectedModels == {cmp.selected[i] : i \in 1..Len(cmp.selected)}
TrainedModels == {m \in Models : ss_model_trained[cmp.session][m]}
HasNullMetric(m) ==
    \E i \in 1..Len(AvailableMetricNames) :
        ss_results[cmp.session][m].v[AvailableMetricNames[i]].null

\* C16 as stated: the chart and leaderboard are produced exactly when the
\* selected models have one recorded split percentage; a trained model that is
\* not selected has no influence.
C16_SelectedModelsDecide ==
    (Compared /\ Cardinality(TrainedModels) >= 2 /\ cmp.selected # <<>>) =>
        (cmp.chart # <<>> <=>
            \A m1, m2 \in SelectedModels : RecordedPct(m1) = RecordedPct(m2))

\* C16: the comparison chart is produced exactly when at least two models are
\* trained, all trained models, selected or not, have one recorded split
\* percentage, and at least one model is selected; the leaderboard is then
\* completed exactly when no selected model has a null metric.  When the
\* trained models' percentages differ nothing is produced and the recorded
\* percentage of each trained model is reported.
C16_TrainedModelsDecide ==
    Compared =>
        /\ cmp.chart # <<>> <=>
              /\ Cardinality(TrainedModels) >= 2
              /\ \A m1, m2 \in TrainedModels : RecordedPct(m1) = RecordedPct(m2)
              /\ cmp.selected # <<>>
        /\ cmp.chart # <<>> => cmp.chart = cmp.selected
        /\ cmp.status = "rendered" <=>
              /\ cmp.chart # <<>>
              /\ \A m \in SelectedModels : ~HasNullMetric(m)
        /\ cmp.status = "rendered" =>
              Len(cmp.leaderboard) = Len(AvailableMetricNames)
        /\ ( /\ Cardinality(TrainedModels) >= 2
             /\ \E m1, m2 \in TrainedModels : RecordedPct(m1) # RecordedPct(m2) )
           => /\ cmp.status = "split_mismatch"
              /\ cmp.chart = <<>> /\ cmp.leaderboard = <<>>
              /\ {cmp.reported[i].model : i \in 1..Len(cmp.reported)}
                    = TrainedModels
              /\ \A i \in 1..Len(cmp.reported) :
                    cmp.reported[i].pct = RecordedPct(cmp.reported[i].model)
        /\ cmp.status # "split_mismatch" => cmp.reported = <<>>
C16_Witness ==
    /\ cmp.status = "split_mismatch" /\ cmp.selected = <<"ARIMA">>
    /\ TrainedModels = {"ARIMA", "PROPHET"}
    /\ cmp.reported = <<[model |-> "ARIMA", pct |-> TRAIN_PCT_DEFAULT],
                        [model |-> "PROPHET", pct |-> 70]>>

\* C17: every leaderboard row that is shown has one card per compared model,
\* in their order; exactly one card is the best one; its value is the
\* smallest of the row when lower is better and the largest otherwise; it is
\* the first card with that value; every other card shows its value minus
\* the best value.
C17_OneBestPerMetric ==
    \A r \in 1..Len(cmp.leaderboard) :
        LET row == cmp.leaderboard[r]
            cards == row.cards
            N == Len(cards)
        IN  N > 0 =>
              /\ N = Len(cmp.selected)
              /\ \A i \in 1..N :
                    /\ cards[i].model = cmp.selected[i]
                    /\ cards[i].value =
                          ss_results[cmp.session][cards[i].model].v[row.metric].v
              /\ Cardinality({i \in 1..N : cards[i].best}) = 1
              /\ \A b \in 1..N :
                    cards[b].best =>
                      /\ \A i \in 1..N :
                            IF row.lower THEN cards[b].value <= cards[i].value
                            ELSE cards[b].value >= cards[i].value
                      /\ \A i \in 1..(b - 1) : cards[i].value # cards[b].value
                      /\ \A i \in 1..N :
                            i # b =>
                              cards[i].delta = cards[i].value - cards[b].value
C17_Witness ==
    /\ cmp.status = "rendered" /\ cmp.selected = <<"PROPHET", "ARIMA">>
    /\ Len(cmp.leaderboard) = 2
    /\ cmp.leaderboard[1].metric = "mae"
    /\ cmp.leaderboard[1].cards[2].best
    /\ cmp.leaderboard[1].cards[1].delta = 1
    /\ cmp.leaderboard[2].metric = "rmse"
    /\ cmp.leaderboard[2].cards[1].best
    /\ cmp.leaderboard[2].cards[2].delta = 0

\* C18: when a selected model has a null metric, the comparison tab's
\* leaderboard is still rendered without raising.
C18_NullMetricDoesNotRaise ==
    (cmp.chart # <<>> /\ \E m \in SelectedModels : HasNullMetric(m)) =>
        cmp.status = "rendered"

\* C21: when a train action fails, the trained flag, metrics, forecast, test
\* predictions and recorded train_pct and horizon of every model of the
\* session keep the values they had before the action.
StoredFields(s) ==
    <<ss_model_trained[s], ss_results[s], ss_predictions[s],
      ss_test_predictions[s], ss_trained_train_pct[s], ss_trained_horizon[s]>>
TrainFails(s) ==
    /\ ss_run[s].pc = "computing"
    /\ ss_run'[s] = Idle
    /\ ss_shown'[s].event = "error"
C21_FailedTrainChangesNothing ==
    [][\A s \in Sessions :
          TrainFails(s) =>
              /\ StoredFields(s)' = StoredFields(s)
              /\ ss_shown'[s].model = ss_run[s].model]_vars
C21_Witness ==
    /\ ss_shown["s1"].event = "error" /\ ss_shown["s1"].model = "ARIMA"
    /\ ss_train_pct["s1"]["ARIMA"] = 70
    /\ ss_model_trained["s1"]["ARIMA"]
    /\ ss_trained_train_pct["s1"]["ARIMA"] = Some(TRAIN_PCT_DEFAULT)
    /\ ~ss_model_trained["s1"]["PROPHET"]

\* C22: the percentage recorded for a model is the train_pct passed to the
\* training run whose results are stored; moving the model's train_pct slider
\* afterwards, without retraining, changes neither a recorded percentage nor
\* what the comparison tab produces for any selection.
SliderMoved(s) ==
    /\ ss_train_pct'[s] # ss_train_pct[s]
    /\ ss_upload_key'[s] = ss_upload_key[s]
PassedTrainPct(s, m) ==
    IF ss_run[s] = Idle THEN ss_train_pct[s][m] ELSE ss_run[s].args.train_pct
StoredFieldsOf(s, m) ==
    <<ss_model_trained[s][m], ss_results[s][m], ss_predictions[s][m],
      ss_test_predictions[s][m], ss_trained_train_pct[s][m],
      ss_trained_horizon[s][m]>>
ResultsWritten(s, m) ==
    /\ ss_model_trained'[s][m]
    /\ ss_run'[s] = Idle
    /\ ss_shown'[s] = NoShown
    /\ \/ ss_run[s].pc \in {"lock_wait", "computing"} /\ ss_run[s].model = m
       \/ ss_run[s] = Idle /\ StoredFieldsOf(s, m)' # StoredFieldsOf(s, m)
C22_RecordedPctIsTrainingPct ==
    [][\A s \in Sessions :
          /\ SliderMoved(s) =>
                /\ ss_trained_train_pct'[s] = ss_trained_train_pct[s]
                /\ \A sel \in Selections(s) :
                      render_comparison_tab(s, sel)' = render_comparison_tab(s, sel)
          /\ \A m \in Models :
                ResultsWritten(s, m) =>
                    ss_trained_train_pct'[s][m] = Some(PassedTrainPct(s, m))]_vars
C22_Witness ==
    /\ cmp.status = "rendered" /\ cmp.selected = <<"ARIMA", "PROPHET">>
    /\ ss_trained_train_pct["s1"]["ARIMA"] = Some(TRAIN_PCT_DEFAULT)
    /\ ss_trained_train_pct["s1"]["PROPHET"] = Some(TRAIN_PCT_DEFAULT)
    /\ ss_train_pct["s1"]["ARIMA"] = 70
    /\ ss_train_pct["s1"]["PROPHET"] = TRAIN_PCT_DEFAULT

\* __init__ of the three models: nothing fitted, nothing stored
FreshInstance == [model |-> NoModel, last_date |-> NoDate, freq |-> NoFreq]
\* the instance is what a fresh instance is after this one fit call
LikeFreshFit(data, fail) ==
    LET r == fit(m_variant, FreshInstance, data, fail)
    IN  /\ m_model = r.model /\ m_last_date = r.last_date /\ m_freq = r.freq
        /\ m_out = r.out

\* C23: after any fit call on an instance, whatever was fitted before, the
\* stored last timestamp, frequency and fitted model are those a fresh
\* instance has after the same fit call, so that predict gives the same
\* timestamps on both.
C23_RefitOverwritesAll ==
    m_call.op = "fit" =>
        \E fail \in FailPoints(m_variant) : LikeFreshFit(m_call.data, fail)

\* C23, for a fit call that returns: the instance is the fresh instance
\* fitted on that data alone, and predict continues that data.
C23_CompletedRefitIsFresh ==
    (m_call.op = "fit" /\ m_out.kind = "ok") =>
        /\ LikeFreshFit(m_call.data, "none")
        /\ \A h \in 1..MaxHorizon :
              /\ predict(m_variant, ThisModel, h, FALSE).kind = "ok"
              /\ \A k \in 1..h :
                    predict(m_variant, ThisModel, h, FALSE).index[k]
                        > m_call.data[Len(m_call.data)]

\* C24: a step of clear_all_models or set_data sets every trained flag to
\* False and every stored result and recorded train_pct and horizon to None
\* and adds one to upload_key; besides the data set_data stores, nothing else
\* changes: every model's train_pct, horizon and hyperparameter values stay.
ClearsModels(s) ==
    /\ ss_upload_key'[s] = ss_upload_key[s] + 1
    /\ ~(AppState_has_data(s) /\ ss_historical_data'[s] = None)
C24_ClearKeepsSettings ==
    [][\A s \in Sessions :
          ClearsModels(s) =>
              /\ ss_train_pct'[s] = ss_train_pct[s]
              /\ ss_horizon'[s] = ss_horizon[s]
              /\ ss_hyperparams'[s] = ss_hyperparams[s]
              /\ ss_present'[s] = ss_present[s]
              /\ StoredFields(s)' =
                    <<[m \in Models |-> FALSE], [m \in Models |-> None],
                      [m \in Models |-> None], [m \in Models |-> None],
                      [m \in Models |-> None], [m \in Models |-> None]>>]_vars
C24_Witness ==
    /\ ss_upload_key["s1"] = 2 /\ AppState_has_data("s1")
    /\ ss_train_pct["s1"]["ARIMA"] = 70
    /\ ss_horizon["s1"]["ARIMA"] = 1
    /\ ss_hyperparams["s1"]["ARIMA"]["p"] = "2"
    /\ \A m \in Models : ~ss_model_trained["s1"][m]
    /\ ss_run["s1"] = Idle

\* a step of "Apply and Load": data is loaded while preprocessing is pending
AppliesAndLoads(s) ==
    /\ ss_preprocessing_pending[s]
    /\ ss_upload_key'[s] = ss_upload_key[s] + 1
    /\ ss_historical_data'[s] # None
\* the method each option of the radio stands for
method_of_option(fill_method) ==
    IF fill_method = FILL_METHODS[1] THEN "interpolate" ELSE "zero"

\* C26: "Apply and Load" loads the pending dataframe with its gaps filled by
\* the method selected in the radio, linear interpolation or zeros, clears
\* the preprocessing state and goes through set_data.
C26_AppliesSelectedMethod ==
    [][\A s \in Sessions :
          AppliesAndLoads(s) =>
              /\ ss_historical_data'[s] =
                    Some(apply_preprocessing(ss_pending_df[s].v,
                                             method_of_option(sb_fill_method[s])))
              /\ ~ss_preprocessing_pending'[s]
              /\ ss_pending_df'[s] = None
              /\ \A m \in Models : ~ss_model_trained'[s][m]]_vars

\* C27: the data "Apply and Load" loads is made, by one of the two fill
\* methods, from the file and the columns selected when it is pressed.
C27_LoadsTheCurrentSelection ==
    [][\A s \in Sessions :
          AppliesAndLoads(s) =>
              \E method \in {"interpolate", "zero"} :
                  ss_historical_data'[s] =
                      Some(apply_preprocessing(
                               prepare_dataframe(uploaded_file(s),
                                                 sb_date_column[s],
                                                 sb_value_column[s]),
                               method))]_vars

\* a step of "Reset All": upload_key goes up and no data is left
ResetsAll(s) ==
    /\ ss_upload_key'[s] = ss_upload_key[s] + 1
    /\ ss_historical_data'[s] = None
\* the value of a hyperparameter widget in a session that was just started
InitialHyperparams ==
    [m \in Models |->
        [n \in {HyperparameterNames(m)[i] : i \in 1..Len(HyperparameterNames(m))} |->
            HyperparameterDefaults(m)[
                CHOOSE i \in 1..Len(HyperparameterNames(m)) :
                    HyperparameterNames(m)[i] = n]]]

\* C25: after "Reset All" every session variable but upload_key has the
\* value it has in a session that was just initialized: no data, nothing
\* trained or stored, train_pct, horizon and hyperparameters at their
\* defaults, no preprocessing pending.
C25_ResetRestoresInitialState ==
    [][\A s \in Sessions :
          ResetsAll(s) =>
              /\ StoredFields(s)' =
                    <<[m \in Models |-> FALSE], [m \in Models |-> None],
                      [m \in Models |-> None], [m \in Models |-> None],
                      [m \in Models |-> None], [m \in Models |-> None]>>
              /\ ss_train_pct'[s] = [m \in Models |-> TRAIN_PCT_DEFAULT]
              /\ ss_horizon'[s] = [m \in Models |-> HORIZON_DEFAULT]
              /\ ss_hyperparams'[s] = InitialHyperparams
              /\ ~ss_preprocessing_pending'[s]
              /\ ss_pending_df'[s] = None
              /\ ss_pending_gap_count'[s] = 0]_vars


\* C28: recommend_p and recommend_q return the length of the longest leading
\* run of significant lags among lags 1..5 (a lag is significant when the
\* magnitude of its correlation exceeds 1.96/sqrt(n)); they return 1 when lag 1
\* is not significant, when fewer than 20 non-null points are available, or
\* when the analysis raises; the returned order is always in 1..5.
LagIsSignificant(lag) ==
    /\ ~rec.values[lag].nan
    /\ rec.values[lag].c * rec.values[lag].c * rec.n > 38416
LongestLeadingRun ==
    CHOOSE k \in 0..5 :
        /\ \A lag \in 1..k : LagIsSignificant(lag)
        /\ k = 5 \/ ~LagIsSignificant(k + 1)
C28_LeadingRunOfSignificantLags ==
    rec.fn \in {"recommend_p", "recommend_q"} =>
        /\ rec.out \in 1..5
        /\ rec.out =
              IF rec.n < 20 \/ rec.raises \/ LongestLeadingRun = 0 THEN 1
              ELSE LongestLeadingRun
C28_Witness ==
    /\ rec.fn = "recommend_p" /\ rec.n = 20 /\ ~rec.raises
    /\ rec.values = <<Corr(44), Corr(0 - 50), Corr(43), Corr(44), Corr(44),
                      Corr(44)>>
    /\ rec.out = 2

\* C29: every value returned by get_recommendations lies inside the bounds of
\* the ARIMA hyperparameter schema (p in 0..5, d in 0..2, q in 0..5), on every
\* fallback path too, and applying the recommendations only writes the three
\* hyperparameter values: nothing is trained, no stored result, trained flag,
\* dataset or other setting of the session changes, and the cache is left alone.
SchemaValues(name) ==
    {ToString(v) : v \in HyperparameterMin(name)..HyperparameterMax(name)}
RecParam == IF rec.fn = "recommend_p" THEN "p"
            ELSE IF rec.fn = "recommend_d" THEN "d" ELSE "q"
AppliesRecommendations(s) ==
    /\ ss_shown'[s].event = "recommended"
    /\ ss_shown'[s] # ss_shown[s] \/ ss_hyperparams'[s] # ss_hyperparams[s]
C29_RecommendationsWithinSchema ==
    [][/\ rec'.fn # "none" =>
              rec'.out \in HyperparameterMin(RecParam')..HyperparameterMax(RecParam')
       /\ \A s \in Sessions :
              AppliesRecommendations(s) =>
                  /\ \A name \in {"p", "d", "q"} :
                         ss_hyperparams'[s]["ARIMA"][name] \in SchemaValues(name)
                  /\ \A m \in Models \ {"ARIMA"} :
                         ss_hyperparams'[s][m] = ss_hyperparams[s][m]
                  /\ StoredFields(s)' = StoredFields(s)
                  /\ ss_historical_data' = ss_historical_data
                  /\ ss_upload_key' = ss_upload_key
                  /\ ss_train_pct' = ss_train_pct
                  /\ ss_horizon' = ss_horizon
                  /\ ss_run' = ss_run
                  /\ cache' = cache /\ producer_runs' = producer_runs]_vars
C29_Witness ==
    /\ ss_shown["s1"].event = "recommended"
    /\ ss_hyperparams["s1"]["ARIMA"]["p"] = "5"
    /\ ss_hyperparams["s1"]["ARIMA"]["d"] = "2"
    /\ ss_hyperparams["s1"]["ARIMA"]["q"] = "2"
    /\ ss_model_trained["s1"]["ARIMA"]
    /\ \E e \in cache : e.key.hyperparams[1].value = "1"


\* C30: a training run that raises leaves no cache entry for its key and is
\* not retried by the core (the session is back at rest, the error shown); a
\* request whose key has no entry goes through the full pipeline, and a
\* pipeline run starts only on such a request; the run that then returns is
\* the one whose value is cached, and only returned values are ever cached.
RequestKey(s) == CacheKey(ss_run[s].args)
RunRaises(s) ==
    /\ ss_run[s].pc = "computing"
    /\ ss_shown'[s].event = "error"
RunReturns(s) ==
    /\ ss_run[s].pc = "computing"
    /\ ss_run'[s] = Idle
    /\ ss_shown'[s].event # "error"
Requests(s) == ss_run[s] = Idle /\ ss_run'[s].pc = "lock_wait"
C30_FailedRunIsNotCached ==
    [][\A s \in Sessions :
          /\ RunRaises(s) =>
                /\ cache' = cache
                /\ RequestKey(s) \notin CacheKeys'
                /\ ss_run'[s] = Idle
                /\ producer_runs' = producer_runs
          /\ Requests(s) =>
                /\ CacheKey(ss_run'[s].args) \notin CacheKeys
                /\ StoredFields(s)' = StoredFields(s)
          /\ ss_run'[s].pc = "lock_wait" =>
                ss_run[s] = Idle \/ ss_run'[s] = ss_run[s]
          /\ ss_run'[s].pc = "computing" =>
                \/ ss_run'[s] = ss_run[s]
                \/ /\ ss_run[s].pc = "lock_wait"
                   /\ RequestKey(s) \notin CacheKeys
          /\ RunReturns(s) =>
                /\ \E e \in cache' :
                       /\ e.key = RequestKey(s) /\ e.by = s
                       /\ ss_results'[s][ss_run[s].model] = Some(e.value.metrics)
                /\ producer_runs'[RequestKey(s)] = ProducerRuns(RequestKey(s)) + 1
          /\ \A e \in cache' : e \in cache \/ RunReturns(e.by)]_vars
C30_Witness ==
    /\ ss_run["s1"] = Idle
    /\ ss_shown["s1"].event = "error" /\ ss_shown["s1"].model = "ARIMA"
    /\ \E e \in cache :
          /\ e.key = CacheKey(TrainArgs("s1", "ARIMA"))
          /\ e.by = "s2"
          /\ ProducerRuns(e.key) = 1

====
